---- MODULE Spec2Model ----
(***************************************************************************)
(* Model of the LSM gesture-matching WebSocket server: the per-connection  *)
(* handler process_player_image of lsm_server.py (one-hand variant, with   *)
(* target assignment by difficulty) and of lsm-server2.py (two-hand        *)
(* variant, with the dominance preference), the registry                   *)
(* CONNECTED_PLAYERS, the worker functions run through run_in_executor,    *)
(* and the reference store as filled by qdrant_init.py.                    *)
(***************************************************************************)
EXTENDS Integers, Sequences, FiniteSets, TLC

VARIABLES
    server,             \* which server script is running
    CONNECTED_PLAYERS,  \* registry: connection -> entry or NoEntry
    pc,                 \* position of each connection's handler coroutine
    open,               \* transport state of each connection
    local,              \* local variables of each handler
    data,               \* the message each handler read last
    nsent,              \* number of messages sent on each connection
    lastSent,           \* last message sent on each connection
    nrecv,              \* number of inbound messages read on each connection
    hands,              \* the shared detector: the calls in progress inside it
    normalizer          \* a call of the normaliser: its argument and its return

vars == <<server, CONNECTED_PLAYERS, pc, open, local, data, nsent, lastSent, nrecv, hands,
          normalizer>>

----------------------------------------------------------------------------
(* Bounds *)

MaxMsgs == 3

MaxPairMsgs == 4

Conns == {"ws1", "ws2"}

Servers == {"lsm_server", "lsm_server2"}

----------------------------------------------------------------------------
(* JSON values.  A value is a record: t is its JSON type, v the text       *)
(* Python's str() gives for it.                                            *)

JStr(s) == [t |-> "str", v |-> s]
JNum == [t |-> "num", v |-> "5"]
JNull == [t |-> "null", v |-> "None"]
Absent == [t |-> "absent", v |-> ""]

\* key in data
Has(j) == j.t # "absent"

\* str(value)
Str(j) == j.v

\* str.upper() on the strings that occur in the model
Upper(s) ==
    CASE s = "a" -> "A"
      [] s = "b" -> "B"
      [] s = "z" -> "Z"
      [] s = "none" -> "NONE"
      [] s = "None" -> "NONE"
      [] s = "any" -> "ANY"
      [] s = "easy" -> "EASY"
      [] s = "impossible" -> "IMPOSSIBLE"
      [] s = "left" -> "LEFT"
      [] s = "right" -> "RIGHT"
      [] s = "up" -> "UP"
      [] s = "set_target" -> "SET_TARGET"
      [] s = "stop_target" -> "STOP_TARGET"
      [] s = "set_dominance" -> "SET_DOMINANCE"
      [] OTHER -> s

----------------------------------------------------------------------------
(* Inbound messages.  A text frame is either not JSON, JSON that is not an *)
(* object, or a JSON object; an object is the record of the keys the       *)
(* handler looks at (Absent for a key the object does not have).           *)

Obj ==
    [kind |-> "object", type |-> Absent, command |-> Absent, sign |-> Absent,
     difficulty |-> Absent, dominance |-> Absent, image_data |-> Absent,
     player_id |-> Absent]

BadJson == [Obj EXCEPT !.kind = "badjson"]
NonObject == [Obj EXCEPT !.kind = "nonobject"]

SetTargetMsgs ==
    {[Obj EXCEPT !.command = JStr("SET_TARGET"), !.sign = JStr("a")],
     [Obj EXCEPT !.command = JStr("set_target"), !.sign = JStr("none")],
     [Obj EXCEPT !.type = JStr("set_target"), !.sign = JStr("B")],
     [Obj EXCEPT !.type = JStr("set_target"), !.sign = JNull],
     [Obj EXCEPT !.command = JStr("SET_TARGET")]}

AssignTargetMsgs ==
    {[Obj EXCEPT !.type = JStr("assign_target"), !.difficulty = JStr("easy")],
     [Obj EXCEPT !.type = JStr("assign_target"), !.difficulty = JStr("any")],
     [Obj EXCEPT !.type = JStr("assign_target"), !.difficulty = JStr("IMPOSSIBLE")]}

DominanceMsgs ==
    {[Obj EXCEPT !.command = JStr("SET_DOMINANCE"), !.dominance = JStr("left")],
     [Obj EXCEPT !.command = JStr("set_dominance"), !.dominance = JStr("up")],
     [Obj EXCEPT !.type = JStr("player_config"), !.dominance = JStr("RIGHT")],
     [Obj EXCEPT !.type = JStr("player_config"), !.dominance = JNum]}

\* image payloads: a missing key, an empty string, text b64decode reduces to
\* no bytes, text it rejects, a number, base64 of bytes that are no image,
\* and five frames
ImagePayloads == {Absent, JStr(""), JStr("!"), JStr("abc"), JNum, JStr("b64:txt"),
                  JStr("b64:nohand"), JStr("b64:deg"), JStr("b64:handA"),
                  JStr("b64:handT"), JStr("b64:handU")}

ImageMsgs == {[Obj EXCEPT !.type = JStr("image"), !.image_data = d] : d \in ImagePayloads}

StopTargetMsgs ==
    {[Obj EXCEPT !.type = JStr("stop_target")],
     [Obj EXCEPT !.command = JStr("stop_target")]}

OtherMsgs ==
    {[Obj EXCEPT !.type = JStr("ping")],
     [Obj EXCEPT !.type = JStr("ping"), !.player_id = JStr("P")],
     [Obj EXCEPT !.command = JNum],
     [Obj EXCEPT !.type = JStr("image"), !.command = JNull, !.image_data = JStr("b64:handA")],
     BadJson, NonObject}

Messages ==
    SetTargetMsgs \cup AssignTargetMsgs \cup DominanceMsgs \cup ImageMsgs
        \cup StopTargetMsgs \cup OtherMsgs

\* the messages a client sends: the first connection's client sends any of
\* them, the second one's a target, frames, a stop, a rename and an unknown
CoreMessages ==
    {[Obj EXCEPT !.type = JStr("set_target"), !.sign = JStr("B")],
     [Obj EXCEPT !.command = JStr("SET_TARGET"), !.sign = JStr("a")],
     [Obj EXCEPT !.type = JStr("image"), !.image_data = JStr("b64:handA")],
     [Obj EXCEPT !.type = JStr("image"), !.image_data = JStr("b64:nohand")],
     [Obj EXCEPT !.type = JStr("stop_target")],
     [Obj EXCEPT !.type = JStr("ping"), !.player_id = JStr("P")],
     [Obj EXCEPT !.type = JStr("assign_target"), !.difficulty = JStr("any")],
     [Obj EXCEPT !.command = JStr("SET_DOMINANCE"), !.dominance = JStr("left")]}

MessagesOf(c) == IF c = "ws1" THEN Messages ELSE CoreMessages

----------------------------------------------------------------------------
(* The reference store.  qdrant_init.py inserts one point per record of    *)
(* the dictionary file, with the payload keys "sign_name" and              *)
(* "difficulty" and the record's vector.  Points are kept in id order.     *)

Point(i, name, tier, vec) ==
    [id |-> i, payload |-> [sign_name |-> name, difficulty |-> tier], vector |-> vec]

QdrantPoints ==
    << Point(0, "A", "EASY", "vA"),
       Point(1, "A", "HARD", "vA2"),
       Point(2, "b", "EASY", "vB") >>

PointIds == 1..Len(QdrantPoints)

\* a FieldCondition(key, MatchValue(value)) on the payload of a point
FieldMatches(p, key, value) ==
    key \in DOMAIN p.payload /\ p.payload[key] = value

\* Python None, for a string-valued variable
PyNone == "<None>"

Truthy(s) == s # PyNone /\ s # ""

\* the sign names in a list of point indexes, in order, each once
RECURSIVE CollectSigns(_, _)
CollectSigns(ids, signs) ==
    IF ids = << >> THEN signs
    ELSE LET sign_name == QdrantPoints[Head(ids)].payload.sign_name
         IN  CollectSigns(Tail(ids),
                 IF Truthy(sign_name) /\ \A k \in 1..Len(signs) : signs[k] # sign_name
                 THEN Append(signs, sign_name) ELSE signs)

\* the payload key the server filters the scroll on
ScrollFilterKey == "difficulty_level"

\* limit=500: the scroll returns one page and the code asks for no other
ScrollLimit == 500

\* get_signs_by_difficulty_from_qdrant; scrollOk is FALSE when the scroll raises
get_signs_by_difficulty_from_qdrant(difficulty_level, scrollOk) ==
    IF ~scrollOk THEN << >>
    ELSE LET matching ==
                 SelectSeq([i \in PointIds |-> i],
                     LAMBDA i : \/ Upper(difficulty_level) = "ANY"
                                \/ FieldMatches(QdrantPoints[i], ScrollFilterKey,
                                                Upper(difficulty_level)))
             all_points == IF Len(matching) > ScrollLimit
                           THEN SubSeq(matching, 1, ScrollLimit) ELSE matching
         IN  CollectSigns(all_points, << >>)

\* mutant: a label is returned when the scan gave none
assign_target_sign_Default(difficulty_level, scrollOk) ==
    LET signs == get_signs_by_difficulty_from_qdrant(difficulty_level, scrollOk)
    IN  IF signs # << >> THEN {signs[k] : k \in 1..Len(signs)} ELSE {"A"}

\* assign_target_sign: the values random.choice can return, or None
assign_target_sign(difficulty_level, scrollOk) ==
    LET signs == get_signs_by_difficulty_from_qdrant(difficulty_level, scrollOk)
    IN  IF signs # << >> THEN {signs[k] : k \in 1..Len(signs)} ELSE {PyNone}

----------------------------------------------------------------------------
(* The image path.  Payload text, bytes and frames are tokens; the         *)
(* detector's answer for a frame is a sequence of hands, each with its     *)
(* handedness label and a pose ("deg" is a pose whose keypoint 9 lies on   *)
(* the wrist).  Similarities are in units of 1/10000, so score_percent is  *)
(* in hundredths of a percent.                                             *)

\* base64.b64decode: "abc" has incorrect padding; characters outside the
\* alphabet are discarded, so "!" decodes to no bytes
B64Fails(s) == s = "abc"

B64Decode(s) ==
    CASE s = "b64:txt" -> "txt"
      [] s = "b64:nohand" -> "nohand"
      [] s = "b64:deg" -> "deg"
      [] s = "b64:handA" -> "handA"
      [] s = "b64:handT" -> "handT"
      [] s = "b64:handU" -> "handU"
      [] OTHER -> ""

\* mutant: the try block of the image branch never raises
DecodeError_Never(encoded_image) == ""

\* the try block of the image branch: the exception class it raises, or ""
DecodeError(encoded_image) ==
    CASE encoded_image.t \in {"absent", "null"} \/ encoded_image = JStr("") -> "ValueError"
      [] encoded_image.t = "num" -> "TypeError"
      [] encoded_image.t = "str" /\ B64Fails(encoded_image.v) -> "Error"
      [] OTHER -> ""

\* hands.process on a decoded frame
Hand(label, pose) == [label |-> label, pose |-> pose]

HandsProcess(frame) ==
    CASE frame = "deg" -> << Hand("Right", "deg") >>
      [] frame = "handA" -> << Hand("Right", "pA") >>
      [] frame = "handT" -> << Hand("Left", "pT") >>
      [] frame = "handU" -> << Hand("Right", "pU") >>
      [] OTHER -> << >>

\* scale_factor < 1e-6
Degenerate(hand) == hand.pose = "deg"

\* lsm_server.py: the first hand only; None when there is no hand or it is degenerate
get_normalized_hand_vector(results) ==
    IF results = << >> THEN PyNone
    ELSE IF Degenerate(results[1]) THEN PyNone
    ELSE results[1].pose

\* lsm-server2.py: the slots and the count of usable hands
RECURSIVE FillSlots(_, _)
FillSlots(results, acc) ==
    IF results = << >> THEN acc
    ELSE LET h == Head(results)
         IN  FillSlots(Tail(results),
                 IF Degenerate(h) THEN acc
                 ELSE [right |-> IF h.label = "Right" THEN h.pose ELSE acc.right,
                       left |-> IF h.label = "Left" THEN h.pose ELSE acc.left,
                       count |-> acc.count + 1])

\* mutant: the slots are ordered by the player's dominant hand
get_normalized_hand_vector2_Dominant(results, player_dominance) ==
    IF results = << >> THEN [right |-> PyNone, left |-> PyNone, count |-> 0]
    ELSE LET acc == FillSlots(results, [right |-> "zeros", left |-> "zeros", count |-> 0])
         IN  IF player_dominance = "LEFT"
             THEN [right |-> acc.left, left |-> acc.right, count |-> acc.count]
             ELSE acc

get_normalized_hand_vector2(results, player_dominance) ==
    IF results = << >> THEN [right |-> PyNone, left |-> PyNone, count |-> 0]
    ELSE FillSlots(results, [right |-> "zeros", left |-> "zeros", count |-> 0])

\* the pose a query vector stands for
QueryPose(vector) ==
    IF server = "lsm_server" THEN vector
    ELSE IF vector.right # "zeros" THEN vector.right ELSE vector.left

\* cosine similarity reported by the store for a query against a stored vector
Cosine(pose, vec) ==
    CASE pose = "pA" /\ vec = "vA" -> 9900
      [] pose = "pA" /\ vec = "vA2" -> 9000
      [] pose = "pT" /\ vec = "vA" -> 9400
      [] pose = "pT" /\ vec = "vA2" -> 9800
      [] pose = "pU" /\ vec = "vA" -> 9400
      [] pose = "pU" /\ vec = "vA2" -> 9000
      [] OTHER -> 5000

Max(S) == CHOOSE x \in S : \A y \in S : y <= x

\* mutant: the search gives the first reference of the label, not the nearest
Search_First(vector, target_sign) ==
    LET hits == {i \in PointIds :
                    FieldMatches(QdrantPoints[i], "sign_name", Upper(target_sign))}
    IN  IF hits = {} THEN << >>
        ELSE << Cosine(QueryPose(vector),
                       QdrantPoints[CHOOSE i \in hits : \A j \in hits : i <= j].vector) >>

\* qdrant_client.search with the sign_name filter and limit 1: the score of
\* the nearest matching point, as a sequence of at most one score
Search(vector, target_sign) ==
    LET hits == {i \in PointIds :
                    FieldMatches(QdrantPoints[i], "sign_name", Upper(target_sign))}
    IN  IF hits = {} THEN << >>
        ELSE << Max({Cosine(QueryPose(vector), QdrantPoints[i].vector) : i \in hits}) >>

\* score > 0.94 (lsm_server.py) and score > 0.98 (lsm-server2.py)
THRESHOLD_94 == 9400
THRESHOLD_98 == 9800

Threshold == IF server = "lsm_server" THEN THRESHOLD_94 ELSE THRESHOLD_98

\* f"{score_percent:.1f}": hundredths of a percent to tenths
Fmt1(h) ==
    LET q == h \div 10
        r == h % 10
    IN  IF r > 5 \/ (r = 5 /\ q % 2 = 1) THEN q + 1 ELSE q

Verdict(ok, text, shown, score) ==
    [is_correct |-> ok, feedback |-> [text |-> text, shown |-> shown],
     score_percent |-> score]

SearchOutcomes == {"ok", "UnexpectedResponse", "Exception"}

\* mutant: a similarity equal to the threshold passes
validate_sign_against_qdrant_AtLeast(vector, target_sign, outcome) ==
    CASE outcome = "UnexpectedResponse" ->
            Verdict(FALSE, "Error Qdrant: Coleccion no lista.", << >>, 0)
      [] outcome = "Exception" ->
            Verdict(FALSE, "Error interno del servidor al consultar DB.", << >>, 0)
      [] OTHER ->
            LET search_result == Search(vector, target_sign)
                score == IF search_result # << >> THEN search_result[1] ELSE 0
                score_percent == score
            IN  IF score >= Threshold
                THEN Verdict(TRUE, "Sena Correcta! Similitud", << Fmt1(score_percent) >>,
                             score_percent)
                ELSE Verdict(FALSE, "Similitud Insuficiente", << Fmt1(score_percent) >>,
                             score_percent)

\* validate_sign_against_qdrant; outcome says whether the search call raises
validate_sign_against_qdrant(vector, target_sign, outcome) ==
    CASE outcome = "UnexpectedResponse" ->
            Verdict(FALSE, "Error Qdrant: Coleccion no lista.", << >>, 0)
      [] outcome = "Exception" ->
            Verdict(FALSE, "Error interno del servidor al consultar DB.", << >>, 0)
      [] OTHER ->
            LET search_result == Search(vector, target_sign)
                score == IF search_result # << >> THEN search_result[1] ELSE 0
                score_percent == score
            IN  IF score > Threshold
                THEN Verdict(TRUE, "Sena Correcta! Similitud", << Fmt1(score_percent) >>,
                             score_percent)
                ELSE Verdict(FALSE, "Similitud Insuficiente", << Fmt1(score_percent) >>,
                             score_percent)

\* cv2.imdecode gives a frame for these bytes (it raises on no bytes and
\* gives None for bytes that are no image)
ImageDecodes(image_bytes) == image_bytes \notin {"", "txt"}

\* _perform_sign_validation up to the call of hands.process, for bytes that
\* give no frame
DecodeFailure(image_bytes) ==
    IF image_bytes = "" THEN Verdict(FALSE, "Error de Vision: error", << >>, 0)
    ELSE Verdict(FALSE, "Error de Vision: ValueError", << >>, 0)

\* mutant: the store is queried whatever the normaliser returned
AfterProcess_AlwaysQueries(results, target_sign, player_dominance, outcome) ==
    IF server = "lsm_server"
    THEN validate_sign_against_qdrant(get_normalized_hand_vector(results), target_sign,
                                      outcome)
    ELSE validate_sign_against_qdrant(
             get_normalized_hand_vector2(results, player_dominance), target_sign, outcome)

\* _perform_sign_validation from the answer of hands.process on
AfterProcess(results, target_sign, player_dominance, outcome) ==
    IF server = "lsm_server"
    THEN LET hand_vector == get_normalized_hand_vector(results)
         IN  IF hand_vector # PyNone
             THEN validate_sign_against_qdrant(hand_vector, target_sign, outcome)
             ELSE Verdict(FALSE, "Mano no detectada por MediaPipe.", << >>, 0)
    ELSE LET r == get_normalized_hand_vector2(results, player_dominance)
         IN  IF r.right # PyNone /\ r.count > 0
             THEN validate_sign_against_qdrant(r, target_sign, outcome)
             ELSE Verdict(FALSE, "Mano(s) no detectada(s) por MediaPipe.", << >>, 0)

\* _perform_sign_validation, for a call that is alone in the detector
_perform_sign_validation(image_bytes, target_sign, player_dominance, outcome) ==
    IF ~ImageDecodes(image_bytes) THEN DecodeFailure(image_bytes)
    ELSE AfterProcess(HandsProcess(image_bytes), target_sign, player_dominance, outcome)

----------------------------------------------------------------------------
(* The detector.  hands is one Hands instance for the process; every       *)
(* executor thread calls hands.process on it and no lock guards the call.  *)
(* busy holds the connections whose worker is inside hands.process, raced  *)
(* those whose call in progress has overlapped with another call.          *)

NoCalls == [busy |-> {}, raced |-> {}]

\* a worker thread enters hands.process
Enter(c) ==
    [busy |-> hands.busy \cup {c},
     raced |-> IF hands.busy = {} THEN hands.raced
               ELSE hands.raced \cup hands.busy \cup {c}]

\* a worker thread returns from hands.process
Leave(c) == [busy |-> hands.busy \ {c}, raced |-> hands.raced \ {c}]

\* the frames cv2.imdecode gives
Frames == {"nohand", "deg", "handA", "handT", "handU"}

\* what hands.process can give a call: its detection for the frame when the
\* call was alone in the detector; when it overlapped with another call
\* (unsynchronized access to the detector's graph and output buffers) the
\* detection of any frame, no hand, or an exception
ProcessOutcomes(c, frame) ==
    IF c \in hands.raced
    THEN {[raised |-> FALSE, results |-> HandsProcess(f)] : f \in Frames}
            \cup {[raised |-> TRUE, results |-> << >>]}
    ELSE {[raised |-> FALSE, results |-> HandsProcess(frame)]}

\* the verdict _perform_sign_validation returns for an answer of the detector
VerdictOf(answer, target_sign, player_dominance, outcome) ==
    IF answer.raised THEN Verdict(FALSE, "Error de Vision: RuntimeError", << >>, 0)
    ELSE AfterProcess(answer.results, target_sign, player_dominance, outcome)

----------------------------------------------------------------------------
(* Outbound messages.  One record shape for every JSON object the server   *)
(* sends; a key the object does not carry is PyNone (<< >> for feedback).  *)

NoFeedback == [text |-> PyNone, shown |-> << >>]

Out ==
    [kind |-> "none", status |-> PyNone, player_id |-> PyNone, target |-> PyNone,
     difficulty |-> PyNone, dominance |-> PyNone, result |-> FALSE,
     feedback |-> NoFeedback, score |-> 0]

StatusMsg(status) == [Out EXCEPT !.kind = "status", !.status = status]

\* mutant: the verdict carries the fixed "NONE" that TARGET_STOPPED carries
VerdictMsg_TargetNone(result, feedback, target, score) ==
    [Out EXCEPT !.kind = "verdict", !.result = result, !.feedback = feedback,
                !.target = "NONE", !.score = score]

VerdictMsg(result, feedback, target, score) ==
    [Out EXCEPT !.kind = "verdict", !.result = result, !.feedback = feedback,
                !.target = target, !.score = score]

\* hex(id(websocket)): distinct for distinct live connection objects
HexId(c) == IF c = "ws1" THEN "0x1" ELSE "0x2"

\* the handler's local variables that are read after a suspension point
\* (they are dead once the reply is sent, and reset then)
NoLocal ==
    [target_sign |-> PyNone, player_dominance |-> PyNone, img_bytes |-> PyNone,
     difficulty |-> PyNone, signs |-> << >>, new_target |-> PyNone,
     result |-> Verdict(FALSE, PyNone, << >>, 0)]

\* before the first message is read
NoMessage == [Obj EXCEPT !.kind = "none"]

\* mutant: the entry starts with target None instead of the 'NONE' sentinel
NewEntry_NoSentinel(c) ==
    IF server = "lsm_server"
    THEN [id |-> HexId(c), target_sign |-> PyNone, dominance |-> PyNone]
    ELSE [id |-> HexId(c), target_sign |-> PyNone, dominance |-> "RIGHT"]

\* CONNECTED_PLAYERS[websocket] = {...}
NewEntry(c) ==
    IF server = "lsm_server"
    THEN [id |-> HexId(c), target_sign |-> "NONE", dominance |-> PyNone]
    ELSE [id |-> HexId(c), target_sign |-> "NONE", dominance |-> "RIGHT"]

DictSet(d, k, v) == [x \in DOMAIN d \cup {k} |-> IF x = k THEN v ELSE d[x]]
DictDel(d, k) == [x \in DOMAIN d \ {k} |-> d[x]]

\* mutant: the message goes to every connection
Send_Broadcast(c, msg) ==
    /\ nsent' = [d \in Conns |-> nsent[d] + 1]
    /\ lastSent' = [d \in Conns |-> msg]

\* websocket.send on an open connection
Send(c, msg) ==
    /\ nsent' = [nsent EXCEPT ![c] = @ + 1]
    /\ lastSent' = [lastSent EXCEPT ![c] = msg]

\* mutant: the finally block empties the registry
Cleanup_ClearsAll(c) ==
    /\ CONNECTED_PLAYERS' = [x \in {} |-> NewEntry(x)]
    /\ pc' = [pc EXCEPT ![c] = "done"]
    /\ open' = [open EXCEPT ![c] = FALSE]

\* the finally block: the handler's entry is removed and the handler ends
Cleanup(c) ==
    /\ CONNECTED_PLAYERS' = IF c \in DOMAIN CONNECTED_PLAYERS
                            THEN DictDel(CONNECTED_PLAYERS, c)
                            ELSE CONNECTED_PLAYERS
    /\ pc' = [pc EXCEPT ![c] = "done"]
    /\ open' = [open EXCEPT ![c] = FALSE]

\* ---------------------------------------------------------------------
\* The normaliser on coordinates.  A landmark coordinate is an integer in
\* units of 1e-7, so the source's 1e-6 is ten units; a component of a
\* fingerprint is the exact quotient <<numerator, denominator>> in lowest
\* terms.  The source computes in float32: the quotients here are the
\* values its results round.
\* ---------------------------------------------------------------------

\* the bounds of the poses and of the transformations applied to them
MaxShape == 1
MaxOffset == 1
MaxScale == 2

\* scale_factor < 1e-6
ScaleEpsilon == 10

Abs(n) == IF n < 0 THEN 0 - n ELSE n

RECURSIVE GCD(_, _)
GCD(a, b) == IF b = 0 THEN a ELSE GCD(b, a % b)

\* a / s as numpy divides: x / 0 is an infinity, 0 / 0 is NaN
Frac(a, s) ==
    IF s = 0 THEN << (IF a > 0 THEN 1 ELSE IF a < 0 THEN 0 - 1 ELSE 0), 0 >>
    ELSE LET g == GCD(Abs(a), s) IN << a \div g, s \div g >>

RECURSIVE RootFrom(_, _)
RootFrom(n, r) == IF r * r >= n THEN r ELSE RootFrom(n, r + 1)

\* np.linalg.norm of three components (the poses drawn have integral norms)
Norm3(x, y, z) == RootFrom(x * x + y * y + z * z, 0)

\* mutant: the wrist is not subtracted
Centre_None(vector_63d) == vector_63d

\* vector_63d[i] -= wrist_x, [i+1] -= wrist_y, [i+2] -= wrist_z
Centre(vector_63d) ==
    [i \in 1..63 |-> vector_63d[i] - vector_63d[((i - 1) % 3) + 1]]

\* np.linalg.norm(vector_63d[27:30])
ScaleFactor(centred) == Norm3(centred[28], centred[29], centred[30])

\* mutant: the vector is not divided by the scale factor
Divide_None(centred, scale_factor) == [i \in 1..63 |-> Frac(centred[i], 1)]

\* vector_63d /= scale_factor
Divide(centred, scale_factor) == [i \in 1..63 |-> Frac(centred[i], scale_factor)]

\* mutant: the reflection negates every component
MirrorX_All(unit) ==
    [i \in 1..60 |-> << 0 - unit[i][1], unit[i][2] >>]

\* for i in range(0, len(hand_vector_60d), 3): hand_vector_60d[i] *= -1
MirrorX(unit) ==
    [i \in 1..60 |-> IF i % 3 = 1 THEN << 0 - unit[i][1], unit[i][2] >>
                     ELSE unit[i]]

NoVector == [none |-> TRUE, vector |-> << >>, divided |-> << >>]

\* mutant: the vector is divided whatever the scale factor
hand_vector_60d_NoCheck(landmarks, handedness) ==
    LET centred == Centre(landmarks)
        scale_factor == ScaleFactor(centred)
        unit == SubSeq(Divide(centred, scale_factor), 4, 63)
    IN  [none |-> FALSE,
         vector |-> IF handedness = "Left" THEN MirrorX(unit) ELSE unit,
         divided |-> << scale_factor >>]

\* one hand's 60 values: centring, the scale check, the division, the
\* removal of the wrist and the reflection of a hand labelled Left;
\* divided lists the scale factors the call divided by
hand_vector_60d(landmarks, handedness) ==
    LET centred == Centre(landmarks)
        scale_factor == ScaleFactor(centred)
        unit == SubSeq(Divide(centred, scale_factor), 4, 63)
    IN  IF scale_factor < ScaleEpsilon THEN NoVector
        ELSE [none |-> FALSE,
              vector |-> IF handedness = "Left" THEN MirrorX(unit) ELSE unit,
              divided |-> << scale_factor >>]

\* lsm_server.py: (hand_vector_60d, handedness) of the first hand, or (None, None)
get_normalized_hand_vector_60d(results) ==
    IF results = << >> THEN [none |-> TRUE, vector |-> << >>, handedness |-> PyNone,
                             divided |-> << >>]
    ELSE LET one == hand_vector_60d(results[1].landmarks, results[1].label)
         IN  [none |-> one.none, vector |-> one.vector,
              handedness |-> IF one.none THEN PyNone ELSE results[1].label,
              divided |-> one.divided]

\* np.zeros(VECTOR_DIMENSION_PER_HAND)
Zeros60 == [i \in 1..60 |-> << 0, 1 >>]

\* mutant: a hand's vector goes to the slot of the other label
AssignSlot_Swapped(acc, handedness, vec) ==
    [acc EXCEPT !.right = IF handedness = "Left" THEN vec ELSE acc.right,
                !.left = IF handedness = "Right" THEN vec ELSE acc.left]

\* if handedness == 'Right': right_vector_60d = ...; elif 'Left': left_vector_60d = ...
AssignSlot(acc, handedness, vec) ==
    [acc EXCEPT !.right = IF handedness = "Right" THEN vec ELSE acc.right,
                !.left = IF handedness = "Left" THEN vec ELSE acc.left]

\* lsm-server2.py: the loop over the detected hands
RECURSIVE FillSlots120(_, _)
FillSlots120(results, acc) ==
    IF results = << >> THEN acc
    ELSE LET h == Head(results)
             one == hand_vector_60d(h.landmarks, h.label)
         IN  FillSlots120(Tail(results),
                 IF one.none THEN acc
                 ELSE [AssignSlot(acc, h.label, one.vector)
                          EXCEPT !.count = acc.count + 1,
                                 !.divided = acc.divided \o one.divided])

\* lsm-server2.py: (final_vector_120d, hands_detected_count), or (None, 0);
\* player_dominance is a parameter the function does not read
get_normalized_hand_vector_120d(results, player_dominance) ==
    IF results = << >> THEN [none |-> TRUE, vector |-> << >>, count |-> 0,
                             divided |-> << >>]
    ELSE LET acc == FillSlots120(results, [right |-> Zeros60, left |-> Zeros60,
                                           count |-> 0, divided |-> << >>])
         IN  [none |-> FALSE, vector |-> acc.right \o acc.left,
              count |-> acc.count, divided |-> acc.divided]

\* the landmark lists the detector is taken to report: the wrist at one of
\* two places, landmark 9 at one of six offsets from it (two of them closer
\* than 1e-6), the other landmarks spread by a shape number; every
\* coordinate is even, so that half the pose is a pose too
Wrists == { << 0, 0, 0 >>, << 4, 0 - 2, 6 >> }
RefVectors == { << 0, 0, 0 >>, << 0, 4, 0 >>, << 6, 8, 0 >>, << 0, 0, 10 >>,
                << 0, 20, 0 >>, << 0 - 12, 0, 16 >> }
Shapes == 1..MaxShape

Landmarks(w, m, q) ==
    [i \in 1..63 |->
        LET kp == (i - 1) \div 3
            j == ((i - 1) % 3) + 1
        IN  w[j] + (CASE kp = 0 -> 0
                      [] kp = 9 -> m[j]
                      [] OTHER -> << 2 * q * kp, 2 * (kp - 10),
                                     2 * (((kp * q) % 5) - 2) >>[j])]

Poses == {Landmarks(w, m, q) : w \in Wrists, m \in RefVectors, q \in Shapes}

DetectedHands == [label : {"Right", "Left"}, landmarks : Poses]

\* results.multi_hand_landmarks with results.multi_handedness: at most
\* max_num_hands hands
DetectorResults(max_num_hands) ==
    {<< >>} \cup {<< h >> : h \in DetectedHands}
            \cup (IF max_num_hands < 2 THEN {}
                  ELSE {<< h1, h2 >> : h1 \in DetectedHands, h2 \in DetectedHands})

\* the dominance a session can hold when the normaliser is called: the
\* one-hand script has none
Dominances == IF server = "lsm_server" THEN {PyNone} ELSE {"RIGHT", "LEFT"}

MaxNumHands == IF server = "lsm_server" THEN 1 ELSE 2

NoReturn == [none |-> TRUE, vector |-> << >>, divided |-> << >>]

NoNormalizer ==
    [results |-> << >>, player_dominance |-> PyNone, pending |-> FALSE,
     returned |-> NoReturn]

TypeOK ==
    /\ server \in Servers
    /\ DOMAIN CONNECTED_PLAYERS \subseteq Conns
    /\ pc \in [Conns -> {"none", "greet", "recv", "assign_exec", "assign_resume",
                         "image_exec", "image_detect", "image_resume", "done",
                         "failed"}]
    /\ open \in [Conns -> BOOLEAN]
    /\ nsent \in [Conns -> Nat]
    /\ nrecv \in [Conns -> Nat]
    /\ hands \in [busy : SUBSET Conns, raced : SUBSET Conns]

Init ==
    /\ server \in Servers
    /\ CONNECTED_PLAYERS = [c \in {} |-> NewEntry(c)]
    /\ pc = [c \in Conns |-> "none"]
    /\ open = [c \in Conns |-> FALSE]
    /\ local = [c \in Conns |-> NoLocal]
    /\ data = [c \in Conns |-> NoMessage]
    /\ nsent = [c \in Conns |-> 0]
    /\ lastSent = [c \in Conns |-> Out]
    /\ nrecv = [c \in Conns |-> 0]
    /\ hands = NoCalls
    /\ normalizer = NoNormalizer

\* the positions at which a handler waits for a function it handed to
\* loop.run_in_executor
WorkerPositions == {"assign_exec", "image_exec", "image_detect"}

\* mutant: the worker functions are called on the event loop's thread
ThreadOf_Inline(position) == "loop"

\* the thread that runs a handler's code at a position: run_in_executor(None,
\* ...) runs the function on a thread of the default pool, everything else
\* is the coroutine itself, on the event loop's thread
ThreadOf(position) == IF position \in WorkerPositions THEN "executor" ELSE "loop"

\* the event loop's thread is inside a function call of some handler; it
\* runs no coroutine until the call returns
LoopBusy == \E d \in Conns : pc[d] \in WorkerPositions /\ ThreadOf(pc[d]) = "loop"

\* mutant: the handler starts without registering the session
Connect_Unregistered(c) ==
    /\ ~LoopBusy
    /\ pc[c] = "none"
    /\ pc' = [pc EXCEPT ![c] = "greet"]
    /\ open' = [open EXCEPT ![c] = TRUE]
    /\ UNCHANGED <<server, normalizer, CONNECTED_PLAYERS, local, data, nsent, lastSent,
                   nrecv, hands>>

\* a client connects; the handler registers the session
Connect(c) ==
    /\ ~LoopBusy
    /\ pc[c] = "none"
    /\ CONNECTED_PLAYERS' = DictSet(CONNECTED_PLAYERS, c, NewEntry(c))
    /\ pc' = [pc EXCEPT ![c] = "greet"]
    /\ open' = [open EXCEPT ![c] = TRUE]
    /\ UNCHANGED <<server, normalizer, local, data, nsent, lastSent, nrecv, hands>>

\* the greeting, sent before the try block: on a closed connection send
\* raises and the exception leaves the handler without the finally block
Greet(c) ==
    /\ ~LoopBusy
    /\ pc[c] = "greet"
    /\ IF open[c]
       THEN /\ Send(c, [StatusMsg("CONNECTED") EXCEPT !.player_id = HexId(c)])
            /\ pc' = [pc EXCEPT ![c] = "recv"]
       ELSE /\ pc' = [pc EXCEPT ![c] = "failed"]
            /\ UNCHANGED <<nsent, lastSent>>
    /\ UNCHANGED <<server, normalizer, CONNECTED_PLAYERS, open, local, data, nrecv, hands>>

\* the peer closes the connection, or the transport fails
Close(c) ==
    /\ open[c]
    /\ open' = [open EXCEPT ![c] = FALSE]
    /\ UNCHANGED <<server, normalizer, CONNECTED_PLAYERS, pc, local, data, nsent, lastSent, nrecv, hands>>

\* "async for" finds the connection closed: the loop ends, finally runs
EndOfStream(c) ==
    /\ ~LoopBusy
    /\ pc[c] = "recv"
    /\ ~open[c]
    /\ Cleanup(c)
    /\ UNCHANGED <<server, normalizer, local, data, nsent, lastSent, nrecv, hands>>

----------------------------------------------------------------------------
(* The dispatch chain of process_player_image.                             *)

TypeIs(msg, s) == msg.type = JStr(s)

\* data.get('command', '').upper() raises AttributeError when the key holds
\* a value that is no string
CommandRaises(msg) == msg.command.t \notin {"absent", "str"}

CommandUpper(msg) == IF msg.command.t = "str" THEN Upper(msg.command.v) ELSE ""

\* mutant: the image branch does not test the session's target
Branch_ImageAlways(msg, target_sign) ==
    IF msg.kind = "badjson" THEN "badjson"
    ELSE IF msg.kind = "nonobject" THEN "raise"
    ELSE IF TypeIs(msg, "set_target") /\ Has(msg.sign) THEN "set_target"
    ELSE IF CommandRaises(msg) THEN "raise"
    ELSE IF CommandUpper(msg) = "SET_TARGET" /\ Has(msg.sign) THEN "set_target"
    ELSE IF /\ server = "lsm_server"
            /\ TypeIs(msg, "assign_target") /\ Has(msg.difficulty) THEN "assign_target"
    ELSE IF /\ server = "lsm_server2"
            /\ \/ TypeIs(msg, "player_config") /\ Has(msg.dominance)
               \/ CommandUpper(msg) = "SET_DOMINANCE" /\ Has(msg.dominance)
         THEN "set_dominance"
    ELSE IF TypeIs(msg, "image") THEN "image"
    ELSE IF TypeIs(msg, "stop_target") \/ CommandUpper(msg) = "STOP_TARGET" THEN "stop_target"
    ELSE "unknown"

\* the branch the if/elif chain takes for a decoded message, given the
\* session's current target; "raise" when evaluating the chain raises
Branch(msg, target_sign) ==
    IF msg.kind = "badjson" THEN "badjson"
    ELSE IF msg.kind = "nonobject" THEN "raise"
    ELSE IF TypeIs(msg, "set_target") /\ Has(msg.sign) THEN "set_target"
    ELSE IF CommandRaises(msg) THEN "raise"
    ELSE IF CommandUpper(msg) = "SET_TARGET" /\ Has(msg.sign) THEN "set_target"
    ELSE IF /\ server = "lsm_server"
            /\ TypeIs(msg, "assign_target") /\ Has(msg.difficulty) THEN "assign_target"
    ELSE IF /\ server = "lsm_server2"
            /\ \/ TypeIs(msg, "player_config") /\ Has(msg.dominance)
               \/ CommandUpper(msg) = "SET_DOMINANCE" /\ Has(msg.dominance)
         THEN "set_dominance"
    ELSE IF TypeIs(msg, "image") /\ target_sign # "NONE" THEN "image"
    ELSE IF TypeIs(msg, "stop_target") \/ CommandUpper(msg) = "STOP_TARGET" THEN "stop_target"
    ELSE "unknown"

\* if 'player_id' in data: CONNECTED_PLAYERS[websocket]['id'] = data['player_id']
WithPlayerId(entry, msg) ==
    IF msg.kind = "object" /\ Has(msg.player_id)
    THEN [entry EXCEPT !.id = Str(msg.player_id)]
    ELSE entry

\* lsm-server2.py adds the session's id to its replies (not to UNKNOWN_COMMAND
\* and ERROR)
Tagged(msg, entry) ==
    IF server = "lsm_server2" THEN [msg EXCEPT !.player_id = entry.id] ELSE msg

\* mutant: STOP_TARGET replies without clearing the target
StopTarget_Keeps(entry) == entry

\* CONNECTED_PLAYERS[websocket]['target_sign'] = 'NONE'
StopTarget(entry) == [entry EXCEPT !.target_sign = "NONE"]

\* mutant: the side is stored without validation
ValidDominance_Any(new_dominance) == TRUE

\* if new_dominance in ['LEFT', 'RIGHT']
ValidDominance(new_dominance) == new_dominance \in {"LEFT", "RIGHT"}

\* mutant: the target is stored before new_target is tested
AssignTarget_Unchecked(entry, new_target) == [entry EXCEPT !.target_sign = new_target]

\* if new_target: CONNECTED_PLAYERS[websocket]['target_sign'] = new_target
AssignTarget(entry, new_target) ==
    IF Truthy(new_target) THEN [entry EXCEPT !.target_sign = new_target] ELSE entry

RECURSIVE SumOver(_, _)
SumOver(f, S) ==
    IF S = {} THEN 0
    ELSE LET x == CHOOSE y \in S : TRUE IN f[x] + SumOver(f, S \ {x})

\* messages read so far, over all connections
TotalRead == SumOver(nrecv, Conns)

\* mutant: the next message is read while an earlier one is still in work
AwaitsMessage_Always(c) == pc[c] \notin {"none", "greet", "done", "failed"}

\* the handler is suspended in "async for message in websocket", the one
\* place where it takes a message
AwaitsMessage(c) == pc[c] = "recv"

\* one message is read and processed up to the next suspension point
Receive(c, msg) ==
    /\ ~LoopBusy
    /\ AwaitsMessage(c)
    /\ open[c]
    /\ nrecv' = [nrecv EXCEPT ![c] = @ + 1]
    /\ data' = [data EXCEPT ![c] = msg]
    /\ LET entry == WithPlayerId(CONNECTED_PLAYERS[c], msg)
           branch == Branch(msg, entry.target_sign)
           loc == NoLocal
       IN  CASE branch = "badjson" ->
                  /\ local' = [local EXCEPT ![c] = loc]
                  /\ UNCHANGED <<CONNECTED_PLAYERS, pc, open, nsent, lastSent>>
             [] branch = "raise" ->
                  /\ Cleanup(c)
                  /\ local' = [local EXCEPT ![c] = loc]
                  /\ UNCHANGED <<nsent, lastSent>>
             [] branch = "set_target" ->
                  LET new_target == Upper(Str(msg.sign))
                      e == [entry EXCEPT !.target_sign = new_target]
                  IN  /\ CONNECTED_PLAYERS' = [CONNECTED_PLAYERS EXCEPT ![c] = e]
                      /\ Send(c, Tagged([StatusMsg("TARGET_SET") EXCEPT !.target = new_target], e))
                      /\ local' = [local EXCEPT ![c] = loc]
                      /\ UNCHANGED <<pc, open>>
             [] branch = "assign_target" ->
                  /\ CONNECTED_PLAYERS' = [CONNECTED_PLAYERS EXCEPT ![c] = entry]
                  /\ local' = [local EXCEPT ![c] =
                                  [loc EXCEPT !.difficulty = Str(msg.difficulty)]]
                  /\ pc' = [pc EXCEPT ![c] = "assign_exec"]
                  /\ UNCHANGED <<open, nsent, lastSent>>
             [] branch = "set_dominance" ->
                  LET new_dominance == Upper(Str(msg.dominance))
                  IN  /\ local' = [local EXCEPT ![c] = loc]
                      /\ UNCHANGED <<pc, open>>
                      /\ IF ValidDominance(new_dominance)
                         THEN LET e == [entry EXCEPT !.dominance = new_dominance]
                              IN  /\ CONNECTED_PLAYERS' = [CONNECTED_PLAYERS EXCEPT ![c] = e]
                                  /\ Send(c, Tagged([StatusMsg("DOMINANCE_SET")
                                                EXCEPT !.dominance = new_dominance], e))
                         ELSE /\ CONNECTED_PLAYERS' = [CONNECTED_PLAYERS EXCEPT ![c] = entry]
                              /\ Send(c, StatusMsg("ERROR"))
             [] branch = "image" ->
                  LET target_sign == entry.target_sign
                      err == DecodeError(msg.image_data)
                  IN  /\ CONNECTED_PLAYERS' = [CONNECTED_PLAYERS EXCEPT ![c] = entry]
                      /\ UNCHANGED open
                      /\ IF err # ""
                         THEN /\ Send(c, Tagged(VerdictMsg(FALSE,
                                        [text |-> "Error de Datos: " \o err, shown |-> << >>],
                                        target_sign, 0), entry))
                              /\ local' = [local EXCEPT ![c] = loc]
                              /\ UNCHANGED pc
                         ELSE /\ local' = [local EXCEPT ![c] =
                                     [loc EXCEPT !.target_sign = target_sign,
                                                 !.player_dominance = entry.dominance,
                                                 !.img_bytes = B64Decode(msg.image_data.v)]]
                              /\ pc' = [pc EXCEPT ![c] = "image_exec"]
                              /\ UNCHANGED <<nsent, lastSent>>
             [] branch = "stop_target" ->
                  LET e == StopTarget(entry)
                  IN  /\ CONNECTED_PLAYERS' = [CONNECTED_PLAYERS EXCEPT ![c] = e]
                      /\ Send(c, Tagged([StatusMsg("TARGET_STOPPED") EXCEPT !.target = "NONE"], e))
                      /\ local' = [local EXCEPT ![c] = loc]
                      /\ UNCHANGED <<pc, open>>
             [] OTHER ->
                  /\ CONNECTED_PLAYERS' = [CONNECTED_PLAYERS EXCEPT ![c] = entry]
                  /\ Send(c, StatusMsg("UNKNOWN_COMMAND"))
                  /\ local' = [local EXCEPT ![c] = loc]
                  /\ UNCHANGED <<pc, open>>
    /\ UNCHANGED <<server, normalizer, hands>>

\* the executor thread runs assign_target_sign
AssignWorker(c) ==
    /\ pc[c] = "assign_exec"
    /\ \E scrollOk \in BOOLEAN :
         \E choice \in assign_target_sign(local[c].difficulty, scrollOk) :
            local' = [local EXCEPT
                         ![c].signs = get_signs_by_difficulty_from_qdrant(
                                          local[c].difficulty, scrollOk),
                         ![c].new_target = choice]
    /\ pc' = [pc EXCEPT ![c] = "assign_resume"]
    /\ UNCHANGED <<server, normalizer, CONNECTED_PLAYERS, open, data, nsent, lastSent, nrecv, hands>>

\* the handler resumes with new_target; a send on a closed connection
\* raises ConnectionClosed, which the handler's try block catches
AssignResume(c) ==
    /\ ~LoopBusy
    /\ pc[c] = "assign_resume"
    /\ LET new_target == local[c].new_target
           e == AssignTarget(CONNECTED_PLAYERS[c], new_target)
       IN  IF open[c]
           THEN /\ CONNECTED_PLAYERS' = [CONNECTED_PLAYERS EXCEPT ![c] = e]
                /\ IF Truthy(new_target)
                   THEN Send(c, [StatusMsg("TARGET_ASSIGNED") EXCEPT
                                       !.target = new_target,
                                       !.difficulty = local[c].difficulty])
                   ELSE Send(c, StatusMsg("ERROR"))
                /\ pc' = [pc EXCEPT ![c] = "recv"]
                /\ local' = [local EXCEPT ![c] = NoLocal]
                /\ UNCHANGED open
           ELSE /\ Cleanup(c)
                /\ local' = [local EXCEPT ![c] = NoLocal]
                /\ UNCHANGED <<nsent, lastSent>>
    /\ UNCHANGED <<server, normalizer, data, nrecv, hands>>

\* the executor thread starts _perform_sign_validation: it decodes the
\* frame and enters hands.process, or returns the decoding failure
ImageWorker(c) ==
    /\ pc[c] = "image_exec"
    /\ IF ImageDecodes(local[c].img_bytes)
       THEN /\ hands' = Enter(c)
            /\ pc' = [pc EXCEPT ![c] = "image_detect"]
            /\ UNCHANGED local
       ELSE /\ local' = [local EXCEPT ![c].result = DecodeFailure(local[c].img_bytes)]
            /\ pc' = [pc EXCEPT ![c] = "image_resume"]
            /\ UNCHANGED hands
    /\ UNCHANGED <<server, normalizer, CONNECTED_PLAYERS, open, data, nsent, lastSent, nrecv>>

\* hands.process returns; the thread normalises, queries the store and
\* returns the verdict
ImageDetect(c) ==
    /\ pc[c] = "image_detect"
    /\ \E answer \in ProcessOutcomes(c, local[c].img_bytes) :
         \E outcome \in SearchOutcomes :
            local' = [local EXCEPT ![c].result =
                         VerdictOf(answer, local[c].target_sign,
                                   local[c].player_dominance, outcome)]
    /\ hands' = Leave(c)
    /\ pc' = [pc EXCEPT ![c] = "image_resume"]
    /\ UNCHANGED <<server, normalizer, CONNECTED_PLAYERS, open, data, nsent, lastSent, nrecv>>

\* mutant: the verdict is sent whatever the state of the connection
ImageResume_SendsAnyway(c) ==
    /\ ~LoopBusy
    /\ pc[c] = "image_resume"
    /\ Send(c, Tagged(VerdictMsg(local[c].result.is_correct, local[c].result.feedback,
                               local[c].target_sign, local[c].result.score_percent),
                    CONNECTED_PLAYERS[c]))
    /\ pc' = [pc EXCEPT ![c] = "recv"]
    /\ local' = [local EXCEPT ![c] = NoLocal]
    /\ UNCHANGED <<server, normalizer, CONNECTED_PLAYERS, open, data, nrecv, hands>>

\* the handler resumes with the worker's result and sends the verdict; a
\* send on a closed connection raises ConnectionClosed, which the handler's
\* try block catches
ImageResume(c) ==
    /\ ~LoopBusy
    /\ pc[c] = "image_resume"
    /\ IF open[c]
       THEN /\ Send(c, Tagged(VerdictMsg(local[c].result.is_correct, local[c].result.feedback,
                                  local[c].target_sign, local[c].result.score_percent),
                              CONNECTED_PLAYERS[c]))
            /\ pc' = [pc EXCEPT ![c] = "recv"]
            /\ UNCHANGED <<CONNECTED_PLAYERS, open>>
       ELSE /\ Cleanup(c)
            /\ UNCHANGED <<nsent, lastSent>>
    /\ local' = [local EXCEPT ![c] = NoLocal]
    /\ UNCHANGED <<server, normalizer, data, nrecv, hands>>

Next ==
    \E c \in Conns :
        \/ Connect(c)
        \/ Greet(c)
        \/ TotalRead < MaxMsgs /\ \E msg \in MessagesOf(c) : Receive(c, msg)
        \/ AssignWorker(c)
        \/ AssignResume(c)
        \/ ImageWorker(c)
        \/ ImageDetect(c)
        \/ ImageResume(c)
        \/ Close(c)
        \/ EndOfStream(c)

Spec == Init /\ [][Next]_vars

\* Two clients that play at the same time: each sets or asks for a target
\* and streams frames, long enough for both to have image work in flight.
PairMessages ==
    {[Obj EXCEPT !.command = JStr("SET_TARGET"), !.sign = JStr("a")],
     [Obj EXCEPT !.type = JStr("set_target"), !.sign = JStr("B")],
     [Obj EXCEPT !.type = JStr("assign_target"), !.difficulty = JStr("any")],
     [Obj EXCEPT !.type = JStr("image"), !.image_data = JStr("b64:handA")],
     [Obj EXCEPT !.type = JStr("image"), !.image_data = JStr("b64:handT")]}

NextPair ==
    \E c \in Conns :
        \/ Connect(c)
        \/ Greet(c)
        \/ TotalRead < MaxPairMsgs /\ \E msg \in PairMessages : Receive(c, msg)
        \/ AssignWorker(c)
        \/ AssignResume(c)
        \/ ImageWorker(c)
        \/ ImageDetect(c)
        \/ ImageResume(c)
        \/ Close(c)
        \/ EndOfStream(c)

SpecPair == Init /\ [][NextPair]_vars

----------------------------------------------------------------------------
(* Properties of the session protocol.                                     *)

Registered(c) == c \in DOMAIN CONNECTED_PLAYERS
Target(c) == CONNECTED_PLAYERS[c].target_sign
Armed(c) == Registered(c) /\ Target(c) # "NONE"
Idle(c) == Registered(c) /\ Target(c) = "NONE"

\* this step is the handler of c reading a message (it is data'[c])
Reads(c) == nrecv'[c] = nrecv[c] + 1

\* this step sends exactly one message, msg, on connection c
Sends(c, msg) == nsent'[c] = nsent[c] + 1 /\ lastSent'[c] = msg

\* this step sends nothing on connection c
Silent(c) == nsent'[c] = nsent[c] /\ lastSent'[c] = lastSent[c]

\* the wire protocol's messages, by the keys that tag them
IsImage(m) == m.kind = "object" /\ m \in ImageMsgs
IsSetTarget(m) == m \in SetTargetMsgs /\ Has(m.sign)
IsStopTarget(m) == m \in StopTargetMsgs
IsSetDominance(m) == m \in DominanceMsgs

\* an image message whose payload the handler can decode
Decodable(m) == IsImage(m) /\ DecodeError(m.image_data) = ""

\* C1: in Armed(t), an image message whose payload decodes is handed to the
\* worker with target t, the worker's verdict is one computed against t,
\* and the one reply the handler then sends is that verdict with target t,
\* the session's target being t before and after each of these steps.
C1_ArmedImageVerdict ==
    [][\A c \in Conns :
        /\ Reads(c) /\ Decodable(data'[c]) /\ Armed(c) =>
                 /\ pc'[c] = "image_exec"
                 /\ local'[c].target_sign = Target(c)
                 /\ CONNECTED_PLAYERS'[c].target_sign = Target(c)
                 /\ Silent(c)
        /\ pc[c] = "image_exec" /\ pc'[c] # "image_exec" =>
                 /\ Armed(c)
                 /\ CONNECTED_PLAYERS'[c].target_sign = Target(c)
                 /\ local'[c].target_sign = Target(c)
                 /\ IF ImageDecodes(local[c].img_bytes)
                    THEN pc'[c] = "image_detect"
                    ELSE /\ pc'[c] = "image_resume"
                         /\ local'[c].result = DecodeFailure(local[c].img_bytes)
                 /\ Silent(c)
        /\ pc[c] = "image_detect" /\ pc'[c] # "image_detect" =>
                 /\ pc'[c] = "image_resume"
                 /\ Armed(c)
                 /\ CONNECTED_PLAYERS'[c].target_sign = Target(c)
                 /\ local'[c].target_sign = Target(c)
                 /\ \E f \in Frames : \E o \in SearchOutcomes :
                       local'[c].result \in
                           {AfterProcess(HandsProcess(f), Target(c),
                                         CONNECTED_PLAYERS[c].dominance, o),
                            Verdict(FALSE, "Error de Vision: RuntimeError", << >>, 0)}
                 /\ Silent(c)
        /\ pc[c] = "image_resume" /\ pc'[c] = "recv" =>
                 /\ Armed(c)
                 /\ CONNECTED_PLAYERS'[c].target_sign = Target(c)
                 /\ nsent'[c] = nsent[c] + 1
                 /\ lastSent'[c].kind = "verdict"
                 /\ lastSent'[c].target = Target(c)
                 /\ lastSent'[c].result = local[c].result.is_correct
                 /\ lastSent'[c].score = local[c].result.score_percent
                 /\ lastSent'[c].feedback = local[c].result.feedback
      ]_vars

\* C1 witness: an Armed(A) session has received the verdict of a matching
\* frame and is still Armed(A)
C1_Witness ==
    \E c \in Conns :
        /\ pc[c] = "recv" /\ Armed(c) /\ Target(c) = "A"
        /\ Decodable(data[c])
        /\ lastSent[c].kind = "verdict"
        /\ lastSent[c].target = "A"
        /\ lastSent[c].result = TRUE

\* C2: SET_TARGET(sign), from any state and for every sign, stores
\* uppercase(sign), replies TARGET_SET with that label and leaves the session
\* Armed(uppercase(sign)).
C2_SetTargetArms ==
    [][\A c \in Conns :
        Reads(c) /\ IsSetTarget(data'[c]) =>
            LET label == Upper(Str(data'[c].sign))
            IN  /\ CONNECTED_PLAYERS'[c].target_sign = label
                /\ nsent'[c] = nsent[c] + 1
                /\ lastSent'[c].status = "TARGET_SET"
                /\ lastSent'[c].target = label
                /\ pc'[c] = "recv"
                /\ Branch([Obj EXCEPT !.type = JStr("image")],
                          CONNECTED_PLAYERS'[c].target_sign) = "image"
      ]_vars

\* C3: an image message read while the session is Idle starts no work: no
\* payload is decoded, nothing is handed to the worker, and the session is
\* Idle afterwards.
C3_IdleImageIgnored ==
    [][\A c \in Conns :
        Reads(c) /\ IsImage(data'[c]) /\ Idle(c) =>
            /\ pc'[c] = "recv"
            /\ local'[c] = NoLocal
            /\ CONNECTED_PLAYERS'[c].target_sign = "NONE"
            /\ lastSent'[c].kind # "verdict"
      ]_vars

\* C3 witness: an Idle session has read an image message
C3_Witness ==
    \E c \in Conns :
        /\ Idle(c) /\ pc[c] = "recv"
        /\ IsImage(data[c]) /\ data[c].image_data = JStr("b64:handA")
        /\ lastSent[c].status = "UNKNOWN_COMMAND"

\* C4: STOP_TARGET, from any state, leaves the session Idle and is answered
\* with TARGET_STOPPED; and while a session is Idle no step starts or
\* continues pose work for it.
C4_StopTargetIdles ==
    [][\A c \in Conns :
        /\ Reads(c) /\ IsStopTarget(data'[c]) =>
              /\ Idle(c)'
              /\ nsent'[c] = nsent[c] + 1
              /\ lastSent'[c].status = "TARGET_STOPPED"
              /\ pc'[c] = "recv"
        /\ Idle(c) /\ Registered(c)' /\ Idle(c)' =>
              pc'[c] \notin {"image_exec", "image_detect", "image_resume"}
      ]_vars

\* C4 witness: a session that had read an earlier message has read
\* STOP_TARGET, got TARGET_STOPPED and is Idle
C4_Witness ==
    \E c \in Conns :
        /\ Idle(c) /\ pc[c] = "recv"
        /\ nrecv[c] >= 2
        /\ IsStopTarget(data[c])
        /\ lastSent[c].status = "TARGET_STOPPED"
        /\ lastSent[c].target = "NONE"

\* the labels that have a reference of the tier a difficulty names
TierLabels(difficulty) ==
    {QdrantPoints[i].payload.sign_name :
        i \in {j \in PointIds : QdrantPoints[j].payload.difficulty = Upper(difficulty)}}

IsAssignTarget(m) == m \in AssignTargetMsgs

\* C5: when ASSIGN_TARGET finds no label, the reply is ERROR and the
\* session's entry is what it was before the message; a tier without
\* references yields no label.  (ASSIGN_TARGET exists in lsm_server.py.)
C5_AssignFailureKeepsTarget ==
    [][\A c \in Conns :
        /\ Reads(c) /\ IsAssignTarget(data'[c]) /\ server = "lsm_server" =>
              /\ pc'[c] = "assign_exec"
              /\ CONNECTED_PLAYERS'[c] = CONNECTED_PLAYERS[c]
              /\ Silent(c)
        /\ pc[c] = "assign_exec" /\ pc'[c] # "assign_exec" =>
              /\ pc'[c] = "assign_resume"
              /\ CONNECTED_PLAYERS'[c] = CONNECTED_PLAYERS[c]
              /\ Silent(c)
              /\ (TierLabels(local[c].difficulty) = {} /\ Upper(local[c].difficulty) # "ANY"
                     => local'[c].new_target = PyNone)
        /\ pc[c] = "assign_resume" /\ pc'[c] = "recv" /\ local[c].new_target = PyNone =>
              /\ CONNECTED_PLAYERS'[c] = CONNECTED_PLAYERS[c]
              /\ nsent'[c] = nsent[c] + 1
              /\ lastSent'[c].status = "ERROR"
      ]_vars

\* C5 witness: a session Armed(A) asked for a tier that has no reference,
\* got ERROR and is still Armed(A)
C5_Witness ==
    \E c \in Conns :
        /\ pc[c] = "recv" /\ Armed(c) /\ Target(c) = "A"
        /\ IsAssignTarget(data[c]) /\ data[c].difficulty = JStr("IMPOSSIBLE")
        /\ lastSent[c].status = "ERROR"

\* C6: when the store holds a reference of the requested tier and the scan
\* succeeds, ASSIGN_TARGET(tier) picks the label of a reference of that
\* tier (and so arms the session with it).
C6_AssignPicksTierLabel ==
    \A c \in Conns :
        pc[c] = "assign_exec" /\ TierLabels(local[c].difficulty) # {} =>
            assign_target_sign(local[c].difficulty, TRUE) \subseteq
                TierLabels(local[c].difficulty)

\* C7: in lsm-server2.py, SET_DOMINANCE(side) with uppercase(side) LEFT or
\* RIGHT stores it and replies DOMINANCE_SET; any other side is answered
\* with ERROR and the stored preference stays; the target is unchanged in
\* both cases, and the stored dominance is always LEFT or RIGHT.
C7_SetDominanceValidated ==
    [][\A c \in Conns :
        server = "lsm_server2" =>
          /\ Reads(c) /\ IsSetDominance(data'[c]) =>
                LET side == Upper(Str(data'[c].dominance))
                IN  /\ CONNECTED_PLAYERS'[c].target_sign = Target(c)
                    /\ pc'[c] = "recv"
                    /\ nsent'[c] = nsent[c] + 1
                    /\ IF side \in {"LEFT", "RIGHT"}
                       THEN /\ CONNECTED_PLAYERS'[c].dominance = side
                            /\ lastSent'[c].status = "DOMINANCE_SET"
                            /\ lastSent'[c].dominance = side
                       ELSE /\ CONNECTED_PLAYERS'[c].dominance = CONNECTED_PLAYERS[c].dominance
                            /\ lastSent'[c].status = "ERROR"
          /\ Registered(c)' => CONNECTED_PLAYERS'[c].dominance \in {"LEFT", "RIGHT"}
      ]_vars

\* C7 witness: a session whose dominance was set to LEFT sent an invalid
\* side, got ERROR and still has LEFT
C7_Witness ==
    \E c \in Conns :
        /\ server = "lsm_server2"
        /\ Registered(c) /\ CONNECTED_PLAYERS[c].dominance = "LEFT"
        /\ IsSetDominance(data[c]) /\ data[c].dominance = JStr("up")
        /\ lastSent[c].status = "ERROR"

\* a JSON object that carries none of the protocol's type or command tags
Unrecognized(m) ==
    /\ m.kind = "object"
    /\ m.type \notin {JStr("set_target"), JStr("assign_target"), JStr("player_config"),
                      JStr("image"), JStr("stop_target")}
    /\ ~(m.command.t = "str" /\
         Upper(m.command.v) \in {"SET_TARGET", "STOP_TARGET", "SET_DOMINANCE"})

\* C8: a JSON object that matches no recognized command is answered with
\* UNKNOWN_COMMAND and leaves the session's entry (target, dominance,
\* identity) unchanged.
C8_UnknownLeavesSession ==
    [][\A c \in Conns :
        Reads(c) /\ Unrecognized(data'[c]) =>
            /\ Registered(c)'
            /\ CONNECTED_PLAYERS'[c] = CONNECTED_PLAYERS[c]
            /\ nsent'[c] = nsent[c] + 1
            /\ lastSent'[c].status = "UNKNOWN_COMMAND"
      ]_vars

\* C9: a session is created Idle, and the first message sent on its
\* connection is the CONNECTED greeting with the session's player_id; no
\* message is read before it.
C9_GreetingFirst ==
    [][\A c \in Conns :
        /\ pc[c] = "none" /\ pc'[c] # "none" =>
              /\ pc'[c] = "greet"
              /\ Idle(c)'
              /\ CONNECTED_PLAYERS'[c].id = HexId(c)
              /\ nsent'[c] = 0
        /\ nsent[c] = 0 /\ nsent'[c] # 0 =>
              /\ pc[c] = "greet"
              /\ Idle(c)
              /\ nsent'[c] = 1
              /\ lastSent'[c].status = "CONNECTED"
              /\ lastSent'[c].player_id = CONNECTED_PLAYERS[c].id
        /\ nsent[c] = 0 => nrecv'[c] = 0
      ]_vars

\* C9 witness: a connected session that was greeted and has read nothing yet
C9_Witness ==
    \E c \in Conns :
        /\ pc[c] = "recv" /\ Idle(c)
        /\ nrecv[c] = 0 /\ nsent[c] = 1
        /\ lastSent[c].status = "CONNECTED"
        /\ lastSent[c].player_id = HexId(c)

\* C10: once the handler of a connection has ended, however it ended, the
\* registry holds no entry for that connection.
C10_NoEntryOutlivesHandler ==
    \A c \in Conns : pc[c] \in {"done", "failed"} => ~Registered(c)

----------------------------------------------------------------------------
(* Error handling.                                                         *)

\* C11: a message whose body is not valid JSON is answered with an error
\* reply on its connection, leaves the session's entry unchanged and leaves
\* the handler waiting for the next message.
C11_BadJsonAnswered ==
    [][\A c \in Conns :
        Reads(c) /\ data'[c].kind = "badjson" =>
            /\ nsent'[c] = nsent[c] + 1
            /\ lastSent'[c].status = "ERROR"
            /\ CONNECTED_PLAYERS'[c] = CONNECTED_PLAYERS[c]
            /\ pc'[c] = "recv"
            /\ open'[c] = open[c]
      ]_vars

\* payloads that are missing, empty, not valid base64 or not text, and
\* payloads whose bytes are no image
BadPayloads == {Absent, JStr(""), JStr("abc"), JNum}
NoImagePayloads == {JStr("!"), JStr("b64:txt")}

DataErrors ==
    {"Error de Datos: ValueError", "Error de Datos: TypeError", "Error de Datos: Error"}
VisionErrors == {"Error de Vision: error", "Error de Vision: ValueError"}

\* C12: in Armed(t), an image message whose payload is missing, empty, not
\* valid base64 or not a decodable image is answered with a verdict of
\* result false and score 0 whose feedback names the decoding failure; the
\* target is t before and after every step of it and the handler does not
\* close the connection.
C12_BadPayloadNegativeReply ==
    [][\A c \in Conns :
        /\ Reads(c) /\ IsImage(data'[c]) /\ Armed(c)
              /\ data'[c].image_data \in BadPayloads =>
                 /\ nsent'[c] = nsent[c] + 1
                 /\ lastSent'[c].kind = "verdict"
                 /\ lastSent'[c].result = FALSE
                 /\ lastSent'[c].score = 0
                 /\ lastSent'[c].feedback.text \in DataErrors
                 /\ lastSent'[c].target = Target(c)
                 /\ CONNECTED_PLAYERS'[c].target_sign = Target(c)
                 /\ pc'[c] = "recv"
                 /\ open'[c] = open[c]
        /\ Reads(c) /\ IsImage(data'[c]) /\ Armed(c)
              /\ data'[c].image_data \in NoImagePayloads =>
                 /\ pc'[c] = "image_exec"
                 /\ ~ImageDecodes(local'[c].img_bytes)
                 /\ CONNECTED_PLAYERS'[c].target_sign = Target(c)
                 /\ open'[c] = open[c]
        /\ pc[c] = "image_exec" /\ pc'[c] # "image_exec"
              /\ ~ImageDecodes(local[c].img_bytes) =>
                 /\ pc'[c] = "image_resume"
                 /\ local'[c].result.is_correct = FALSE
                 /\ local'[c].result.score_percent = 0
                 /\ local'[c].result.feedback.text \in VisionErrors
                 /\ CONNECTED_PLAYERS'[c].target_sign = Target(c)
                 /\ open'[c] = open[c]
        /\ pc[c] = "image_resume" /\ pc'[c] = "recv"
              /\ local[c].result.feedback.text \in VisionErrors =>
                 /\ nsent'[c] = nsent[c] + 1
                 /\ lastSent'[c].kind = "verdict"
                 /\ lastSent'[c].result = FALSE
                 /\ lastSent'[c].score = 0
                 /\ lastSent'[c].feedback.text \in VisionErrors
                 /\ lastSent'[c].target = Target(c)
                 /\ CONNECTED_PLAYERS'[c].target_sign = Target(c)
                 /\ open'[c] = open[c]
      ]_vars

\* C12 witness: a session Armed(A) sent an image whose payload is not valid
\* base64, got the negative reply for it and is still Armed(A) and open
C12_Witness ==
    \E c \in Conns :
        /\ pc[c] = "recv" /\ open[c] /\ Armed(c) /\ Target(c) = "A"
        /\ IsImage(data[c]) /\ data[c].image_data = JStr("abc")
        /\ lastSent[c].kind = "verdict"
        /\ lastSent[c].result = FALSE
        /\ lastSent[c].score = 0
        /\ lastSent[c].feedback.text = "Error de Datos: Error"
        /\ lastSent[c].target = "A"

\* C13: no message body ends a session: after reading any message the
\* handler is still running (waiting for the next message or for its
\* worker) and the session is still registered; a handler ends only after
\* its connection was closed.
C13_NoMessageEndsSession ==
    [][\A c \in Conns :
        /\ Reads(c) => pc'[c] \in {"recv", "assign_exec", "image_exec"} /\ Registered(c)'
        /\ pc[c] # "done" /\ pc'[c] = "done" => ~open[c]
      ]_vars

----------------------------------------------------------------------------
(* Ordering, the worker pool and isolation between connections.            *)

\* work of an earlier message of c is with the executor or waits to resume
InFlight(c) ==
    pc[c] \in {"assign_exec", "assign_resume", "image_exec", "image_detect", "image_resume"}

\* C14: a handler reads a message only when no work of an earlier message
\* of its connection is in flight; while work is in flight nothing is read
\* and the session's target is not read again; the reply sent when the work
\* is done answers the message read last; so every message is answered
\* before the next one is read, and replies follow the order of requests.
C14_ArrivalOrder ==
    [][\A c \in Conns :
        /\ Reads(c) => pc[c] = "recv" /\ local[c] = NoLocal /\ ~InFlight(c)
        /\ InFlight(c) =>
              /\ nrecv'[c] = nrecv[c] /\ data'[c] = data[c]
              /\ local'[c].target_sign \in {local[c].target_sign, PyNone}
        /\ nsent'[c] \in {nsent[c], nsent[c] + 1}
        /\ nsent'[c] <= nrecv'[c] + 1
        /\ pc[c] = "image_resume" /\ nsent'[c] # nsent[c] =>
              /\ TypeIs(data[c], "image")
              /\ lastSent'[c].kind = "verdict"
              /\ pc'[c] = "recv"
        /\ pc[c] = "assign_resume" /\ nsent'[c] # nsent[c] =>
              /\ TypeIs(data[c], "assign_target")
              /\ lastSent'[c].status \in {"TARGET_ASSIGNED", "ERROR"}
              /\ pc'[c] = "recv"
      ]_vars

\* C14 witness: a session whose third message was an image: it was read
\* after both earlier messages were answered, and its verdict is the fourth
\* message sent on the connection
C14_Witness ==
    \E c \in Conns :
        /\ pc[c] = "recv"
        /\ nrecv[c] = 3 /\ nsent[c] = 4
        /\ IsImage(data[c])
        /\ lastSent[c].kind = "verdict"
        /\ lastSent[c].feedback.text = "Similitud Insuficiente"

\* C15: the worker functions run on executor threads, and the handler's own
\* steps compute no verdict and no target; so while work of one connection
\* is with the executor, the event loop can run the handler of any other
\* connection: accept it, greet it, read and process any message of it, and
\* send the reply of its finished work.
C15_WorkersOffDispatcher ==
    \A c \in Conns :
        /\ pc[c] \in WorkerPositions => ThreadOf(pc[c]) = "executor"
        /\ pc[c] \in {"recv", "assign_exec", "image_exec", "image_detect"} =>
              local[c].result = NoLocal.result /\ local[c].new_target = PyNone
        /\ pc[c] \in WorkerPositions =>
              \A d \in Conns \ {c} :
                 /\ pc[d] = "none" => ENABLED Connect(d)
                 /\ pc[d] = "greet" => ENABLED Greet(d)
                 /\ pc[d] = "recv" /\ open[d] =>
                       \A msg \in MessagesOf(d) : ENABLED Receive(d, msg)
                 /\ pc[d] = "recv" /\ ~open[d] => ENABLED EndOfStream(d)
                 /\ pc[d] = "assign_resume" => ENABLED AssignResume(d)
                 /\ pc[d] = "image_resume" => ENABLED ImageResume(d)

\* C15 witness: the detector works on a frame of one connection while
\* another connection, greeted and open, can have a message read and answered
C15_Witness ==
    \E c \in Conns : \E d \in Conns \ {c} :
        /\ pc[c] = "image_detect"
        /\ pc[d] = "recv" /\ open[d] /\ nsent[d] = 1
        /\ ENABLED Receive(d, [Obj EXCEPT !.type = JStr("stop_target")])

\* C16: when a connection is closed while its image work is in flight, the
\* worker's completion and the handler's resumption send nothing on any
\* connection, and the resumption removes the session's entry and ends the
\* handler.
C16_ClosedInFlightDiscarded ==
    [][\A c \in Conns :
        /\ pc[c] \in {"image_exec", "image_detect"} /\ ~open[c] /\ pc'[c] # pc[c] =>
              /\ pc'[c] \in {"image_detect", "image_resume"}
              /\ \A d \in Conns : Silent(d)
        /\ pc[c] = "image_resume" /\ ~open[c] /\ pc'[c] # pc[c] =>
              /\ \A d \in Conns : Silent(d)
              /\ pc'[c] = "done"
              /\ ~Registered(c)'
      ]_vars

\* C16 witness: a session was armed and sent a decodable frame; its handler
\* has ended and the last message sent on the connection is still the reply
\* to SET_TARGET: the verdict was never sent
C16_Witness ==
    \E c \in Conns :
        /\ pc[c] = "done" /\ ~Registered(c)
        /\ nrecv[c] = 2 /\ nsent[c] = 2
        /\ Decodable(data[c]) /\ data[c].image_data = JStr("b64:handA")
        /\ lastSent[c].status = "TARGET_SET" /\ lastSent[c].target = "A"

\* C17: a step that sends sends one message, on the connection of the
\* handler that takes the step (its greeting, the reply to the message it
\* reads in that step, or the reply of its finished work); no other
\* connection gets a message in that step and no other handler moves.
C17_RepliesToOriginOnly ==
    [][\A c \in Conns :
        ~Silent(c) =>
            /\ nsent'[c] = nsent[c] + 1
            /\ \/ pc[c] = "greet" /\ lastSent'[c].status = "CONNECTED"
               \/ Reads(c)
               \/ pc[c] \in {"assign_resume", "image_resume"}
            /\ \A d \in Conns \ {c} :
                  Silent(d) /\ pc'[d] = pc[d] /\ nrecv'[d] = nrecv[d]
      ]_vars

\* C17 witness: two open sessions; one has been sent three replies, the
\* other nothing but its greeting
C17_Witness ==
    \E c \in Conns : \E d \in Conns \ {c} :
        /\ pc[c] = "recv" /\ open[c] /\ nsent[c] = 4
        /\ pc[d] = "recv" /\ open[d] /\ nsent[d] = 1
        /\ lastSent[d].status = "CONNECTED" /\ lastSent[d].player_id = HexId(d)

\* the handler of c takes no part in this step
Still(c) == pc'[c] = pc[c] /\ nrecv'[c] = nrecv[c]

\* C18: a step of one connection's handler (connect, greeting, a message,
\* a worker's completion, cleanup) leaves the entry of every other
\* connection as it was: not added, not removed, no field changed.
C18_OtherEntriesUntouched ==
    [][\A c \in Conns :
        Still(c) =>
            /\ Registered(c)' <=> Registered(c)
            /\ Registered(c) => CONNECTED_PLAYERS'[c] = CONNECTED_PLAYERS[c]
      ]_vars

\* C18 witness: a session that had read a message has ended and is gone
\* from the registry while the other session is registered, armed and has
\* the id it was given at connect
C18_Witness ==
    \E c \in Conns : \E d \in Conns \ {c} :
        /\ pc[c] = "done" /\ ~Registered(c) /\ nrecv[c] >= 1
        /\ Registered(d) /\ pc[d] = "recv"
        /\ Target(d) = "B" /\ CONNECTED_PLAYERS[d].id = HexId(d)

\* image work of c is in flight
ImageInFlight(c) == pc[c] \in {"image_exec", "image_detect", "image_resume"}

\* C19: when sessions with different targets have the same image data in
\* work, under any interleaving, the verdict a worker returns for a session
\* is the one _perform_sign_validation computes from that session's frame
\* and that session's target alone.
C19_VerdictOfOwnSession ==
    [][\A c \in Conns :
        /\ pc[c] = "image_detect" /\ pc'[c] = "image_resume"
        /\ \A d \in Conns \ {c} :
              ImageInFlight(d) =>
                  /\ local[d].img_bytes = local[c].img_bytes
                  /\ local[d].target_sign # local[c].target_sign
        => \E o \in SearchOutcomes :
              local'[c].result =
                  _perform_sign_validation(local[c].img_bytes, local[c].target_sign,
                                           local[c].player_dominance, o)
      ]_vars

----------------------------------------------------------------------------
(* The match evaluator.                                                    *)

\* feedback of the paths on which no similarity was obtained
ErrorFeedback ==
    DataErrors \cup VisionErrors \cup
        {"Error de Vision: RuntimeError", "Mano no detectada por MediaPipe.",
         "Mano(s) no detectada(s) por MediaPipe.", "Error Qdrant: Coleccion no lista.",
         "Error interno del servidor al consultar DB."}

\* C20: in every verdict, returned by a worker or sent to a client, result
\* is true exactly when the reported similarity is strictly above the
\* threshold of the running server; the error paths report result false
\* and score 0, and so does a search that finds no reference of the target.
C20_StrictlyAboveThreshold ==
    \A c \in Conns :
        /\ pc[c] = "image_resume" =>
              LET r == local[c].result
              IN  /\ r.is_correct <=> r.score_percent > Threshold
                  /\ r.feedback.text \in ErrorFeedback =>
                        ~r.is_correct /\ r.score_percent = 0
                  /\ (\A i \in PointIds : QdrantPoints[i].payload.sign_name
                                              # Upper(local[c].target_sign)) =>
                        ~r.is_correct /\ r.score_percent = 0
        /\ lastSent[c].kind = "verdict" =>
              /\ lastSent[c].result <=> lastSent[c].score > Threshold
              /\ lastSent[c].feedback.text \in ErrorFeedback =>
                    ~lastSent[c].result /\ lastSent[c].score = 0

\* C20 witness: a verdict whose similarity equals the threshold was sent
\* with result false
C20_Witness ==
    \E c \in Conns :
        /\ lastSent[c].kind = "verdict"
        /\ lastSent[c].score = Threshold
        /\ lastSent[c].result = FALSE
        /\ lastSent[c].feedback.text = "Similitud Insuficiente"

\* ---------------------------------------------------------------------
\* The normaliser as a function: a call on each result the detector can
\* report, in either script
\* ---------------------------------------------------------------------

InitNorm ==
    /\ server \in Servers
    /\ CONNECTED_PLAYERS = [c \in {} |-> NewEntry(c)]
    /\ pc = [c \in Conns |-> "none"]
    /\ open = [c \in Conns |-> FALSE]
    /\ local = [c \in Conns |-> NoLocal]
    /\ data = [c \in Conns |-> NoMessage]
    /\ nsent = [c \in Conns |-> 0]
    /\ lastSent = [c \in Conns |-> Out]
    /\ nrecv = [c \in Conns |-> 0]
    /\ hands = NoCalls
    /\ normalizer \in [results : DetectorResults(MaxNumHands),
                       player_dominance : Dominances, pending : {TRUE},
                       returned : {NoReturn}]

\* lsm_server.py: get_normalized_hand_vector(results)
Normalize60 ==
    /\ server = "lsm_server"
    /\ normalizer.pending
    /\ normalizer' = [normalizer EXCEPT
                         !.pending = FALSE,
                         !.returned = get_normalized_hand_vector_60d(normalizer.results)]
    /\ UNCHANGED <<server, CONNECTED_PLAYERS, pc, open, local, data, nsent, lastSent,
                   nrecv, hands>>

\* lsm-server2.py: get_normalized_hand_vector(results, player_dominance)
Normalize120 ==
    /\ server = "lsm_server2"
    /\ normalizer.pending
    /\ normalizer' = [normalizer EXCEPT
                         !.pending = FALSE,
                         !.returned = get_normalized_hand_vector_120d(
                                          normalizer.results,
                                          normalizer.player_dominance)]
    /\ UNCHANGED <<server, CONNECTED_PLAYERS, pc, open, local, data, nsent, lastSent,
                   nrecv, hands>>

NextNorm == Normalize60 \/ Normalize120

SpecNorm == InitNorm /\ [][NextNorm]_vars

\* the call has returned
Returned == normalizer.results # << >> /\ ~normalizer.pending

\* landmark 9 of the landmark list is closer to the wrist than 1e-6
Coincides(landmarks) ==
    Norm3(landmarks[28] - landmarks[1], landmarks[29] - landmarks[2],
          landmarks[30] - landmarks[3]) < ScaleEpsilon

\* ---------------------------------------------------------------------
\* The failure classes of a verdict
\* ---------------------------------------------------------------------

\* no stored reference has the label the search filters by
NoReference(target_sign) ==
    \A i \in PointIds : QdrantPoints[i].payload.sign_name # Upper(target_sign)

\* the feedback of a match that is compared with the threshold
BelowThresholdFeedback == "Similitud Insuficiente"

\* C21: a verdict returned for a target that has no reference in the
\* store, or for a search that the store failed, has result false and a
\* feedback that is not the one of a below-threshold match, the feedback
\* for a store that rejects the request differs from the feedback for a
\* store that cannot be reached, and the handler goes on to reply.
C21_FailureClassNamed ==
    \A c \in Conns :
        pc[c] = "image_resume"
        /\ local[c].result.feedback.text
              \notin (VisionErrors \cup {"Error de Vision: RuntimeError",
                                         "Mano no detectada por MediaPipe.",
                                         "Mano(s) no detectada(s) por MediaPipe."}) =>
            LET r == local[c].result
            IN  /\ NoReference(local[c].target_sign) =>
                      /\ ~r.is_correct
                      /\ r.feedback.text # BelowThresholdFeedback
                /\ r.feedback.text \in {"Error Qdrant: Coleccion no lista.",
                                        "Error interno del servidor al consultar DB."} =>
                      ~r.is_correct
                /\ "Error Qdrant: Coleccion no lista."
                      # "Error interno del servidor al consultar DB."

\* C22: the feedback of every verdict sent to a client carries the score
\* of that verdict formatted to one decimal place.
C22_FeedbackShowsScore ==
    \A c \in Conns :
        lastSent[c].kind = "verdict" =>
            lastSent[c].feedback.shown = << Fmt1(lastSent[c].score) >>

\* ---------------------------------------------------------------------
\* Frames without a usable hand
\* ---------------------------------------------------------------------

\* frames in which the detector finds no hand, or one hand whose landmark 9
\* is at the wrist
UnusableFrames == {"nohand", "deg"}

NoHandFeedback ==
    {"Mano no detectada por MediaPipe.", "Mano(s) no detectada(s) por MediaPipe."}

\* C23: for a frame with no hand, or with one degenerate hand, whose call
\* was alone in the detector, the worker returns result false and score 0
\* with the no-hand feedback whatever the store would have answered (the
\* store is not queried), leaving the registry and the connection as they
\* were; the handler then sends exactly that verdict and waits for the
\* next message with the same target, the connection open.
C23_UnusableHandVerdict ==
    [][\A c \in Conns :
        /\ ( /\ pc[c] = "image_detect" /\ pc'[c] = "image_resume"
             /\ c \notin hands.raced
             /\ local[c].img_bytes \in UnusableFrames ) =>
              /\ ~local'[c].result.is_correct
              /\ local'[c].result.score_percent = 0
              /\ local'[c].result.feedback.text \in NoHandFeedback
              /\ CONNECTED_PLAYERS' = CONNECTED_PLAYERS
              /\ open' = open
        /\ ( /\ pc[c] = "image_resume" /\ pc'[c] # "image_resume"
             /\ open[c]
             /\ local[c].result.feedback.text \in NoHandFeedback ) =>
              /\ nsent'[c] = nsent[c] + 1
              /\ lastSent'[c].kind = "verdict"
              /\ ~lastSent'[c].result
              /\ lastSent'[c].score = 0
              /\ lastSent'[c].feedback.text \in NoHandFeedback
              /\ pc'[c] = "recv"
              /\ open'[c]
              /\ c \in DOMAIN CONNECTED_PLAYERS'
              /\ CONNECTED_PLAYERS'[c].target_sign = local[c].target_sign
              /\ CONNECTED_PLAYERS'[c].target_sign # "NONE"
      ]_vars

\* C23 witness: the verdict for a frame with one degenerate hand was sent
\* and the session is still armed on an open connection
C23_Witness ==
    \E c \in Conns :
        /\ lastSent[c].kind = "verdict"
        /\ lastSent[c].feedback.text \in NoHandFeedback
        /\ lastSent[c].score = 0
        /\ pc[c] = "recv" /\ open[c]
        /\ c \in DOMAIN CONNECTED_PLAYERS
        /\ CONNECTED_PLAYERS[c].target_sign = "A"

\* the hands of a detector result, by position
HandsAt(results) == 1..Len(results)

\* the hands that are not degenerate
Usable(results) == {i \in HandsAt(results) : ~Coincides(results[i].landmarks)}

\* the two halves of the 120 values
RightSlot(vector) == SubSeq(vector, 1, 60)
LeftSlot(vector) == SubSeq(vector, 61, 120)

\* C24: the normaliser divides only by scale factors of at least 1e-6 and
\* once for each hand that is not degenerate; no value it returns is an
\* infinity or a NaN; for a degenerate hand the one-hand normaliser returns
\* None, and the two-hand normaliser counts no hand and leaves zeros in the
\* slot of a label whose hands are all degenerate.
C24_DegenerateRejected ==
    Returned =>
        LET res == normalizer.results
            ret == normalizer.returned
        IN  /\ \A i \in 1..Len(ret.divided) : ret.divided[i] >= ScaleEpsilon
            /\ Len(ret.divided) = Cardinality(Usable(res))
            /\ \A i \in 1..Len(ret.vector) : ret.vector[i][2] # 0
            /\ server = "lsm_server" =>
                  (Coincides(res[1].landmarks) =>
                        ret.none /\ ret.vector = << >> /\ ret.handedness = PyNone)
            /\ server = "lsm_server2" =>
                  /\ ret.count = Cardinality(Usable(res))
                  /\ (\A i \in HandsAt(res) : res[i].label = "Right" => i \notin Usable(res))
                        => RightSlot(ret.vector) = Zeros60
                  /\ (\A i \in HandsAt(res) : res[i].label = "Left" => i \notin Usable(res))
                        => LeftSlot(ret.vector) = Zeros60

\* C24 witness: the one-hand normaliser returned None for a hand whose
\* landmark 9 is off the wrist by less than 1e-6
C24_Witness ==
    /\ Returned
    /\ server = "lsm_server"
    /\ Coincides(normalizer.results[1].landmarks)
    /\ normalizer.results[1].landmarks[29] # normalizer.results[1].landmarks[2]
    /\ normalizer.returned.none

\* ---------------------------------------------------------------------
\* Invariances of the fingerprint
\* ---------------------------------------------------------------------

Offsets == (0 - MaxOffset)..MaxOffset

\* the landmark list with <<dx, dy, dz>> added to each of the 21 landmarks
Translate(landmarks, d) == [i \in 1..63 |-> landmarks[i] + d[((i - 1) % 3) + 1]]

\* the normaliser of the running script
Normalizer(results) ==
    IF server = "lsm_server" THEN get_normalized_hand_vector_60d(results)
    ELSE get_normalized_hand_vector_120d(results, normalizer.player_dominance)

\* every hand of the result moved by d
TranslateAll(results, d) ==
    [i \in HandsAt(results) |->
        [results[i] EXCEPT !.landmarks = Translate(results[i].landmarks, d)]]

\* C25: for a result whose hands are not degenerate and every offset
\* <<dx, dy, dz>>, the normaliser returns for the hands moved by the offset
\* the values it returned for the hands where they were: 60 values for the
\* one-hand script, 120 for the two-hand script.
C25_TranslationInvariant ==
    (Returned /\ Usable(normalizer.results) = HandsAt(normalizer.results)) =>
        /\ Len(normalizer.returned.vector) = IF server = "lsm_server" THEN 60 ELSE 120
        /\ \A dx \in Offsets, dy \in Offsets, dz \in Offsets :
              Normalizer(TranslateAll(normalizer.results, << dx, dy, dz >>)).vector
                  = normalizer.returned.vector

\* C25 witness: the one-hand normaliser returned a fingerprint for a hand
\* whose wrist is away from the origin
C25_Witness ==
    /\ Returned
    /\ server = "lsm_server"
    /\ ~Coincides(normalizer.results[1].landmarks)
    /\ normalizer.results[1].landmarks[1] # 0
    /\ ~normalizer.returned.none
    /\ Len(normalizer.returned.vector) = 60

\* the mirror image of a landmark list: x becomes -x
MirrorImage(landmarks) ==
    [i \in 1..63 |-> IF i % 3 = 1 THEN 0 - landmarks[i] ELSE landmarks[i]]

Opposite(label) == IF label = "Right" THEN "Left" ELSE "Right"

\* the 60 values the normaliser of the running script returns for one hand
Fingerprint(hand) ==
    LET ret == Normalizer(<< hand >>)
    IN  IF server = "lsm_server" THEN ret.vector
        ELSE IF hand.label = "Right" THEN RightSlot(ret.vector)
        ELSE LeftSlot(ret.vector)

\* C26: for a single hand that is not degenerate, the 60 values returned
\* are those returned for its mirror image under the opposite label, and
\* the values for the same landmarks labelled Left are those for the label
\* Right with the x of each of the 20 retained landmarks negated, y and z
\* the same.
C26_HandednessUnified ==
    (Returned /\ Len(normalizer.results) = 1 /\ Usable(normalizer.results) = {1}) =>
        LET h == normalizer.results[1]
            own == IF server = "lsm_server" THEN normalizer.returned.vector
                   ELSE IF h.label = "Right" THEN RightSlot(normalizer.returned.vector)
                   ELSE LeftSlot(normalizer.returned.vector)
            image == [label |-> Opposite(h.label), landmarks |-> MirrorImage(h.landmarks)]
            asRight == Fingerprint([h EXCEPT !.label = "Right"])
            asLeft == Fingerprint([h EXCEPT !.label = "Left"])
        IN  /\ Len(own) = 60
            /\ Fingerprint(image) = own
            /\ \A i \in 1..60 :
                  /\ asLeft[i][2] = asRight[i][2]
                  /\ asLeft[i][1] = IF i % 3 = 1 THEN 0 - asRight[i][1] ELSE asRight[i][1]

\* C26 witness: the two-hand normaliser returned, in the left slot, the
\* fingerprint of a Left hand that has landmarks off the wrist in x, y and z
C26_Witness ==
    /\ Returned
    /\ server = "lsm_server2"
    /\ Len(normalizer.results) = 1
    /\ normalizer.results[1].label = "Left"
    /\ \E i \in 61..120 : i % 3 = 1 /\ normalizer.returned.vector[i][1] # 0
    /\ \E i \in 61..120 : i % 3 = 2 /\ normalizer.returned.vector[i][1] # 0
    /\ \E i \in 61..120 : i % 3 = 0 /\ normalizer.returned.vector[i][1] # 0

\* the factors n/d with numerator and denominator up to MaxScale
Factors == {<< n, d >> : n \in 1..MaxScale, d \in 1..MaxScale}

\* the factor k multiplies every coordinate of the hands to a coordinate
ScalesExactly(results, k) ==
    \A h \in HandsAt(results) : \A i \in 1..63 :
        (results[h].landmarks[i] * k[1]) % k[2] = 0

\* every landmark of every hand multiplied by k
ScaleAll(results, k) ==
    [h \in HandsAt(results) |->
        [results[h] EXCEPT !.landmarks =
            [i \in 1..63 |-> (results[h].landmarks[i] * k[1]) \div k[2]]]]

\* the retained landmark 9 (values 25 to 27 of a slot) has norm 1
UnitReference(slot) ==
    LET x == slot[25]
        y == slot[26]
        z == slot[27]
    IN  x[1] * x[1] * y[2] * y[2] * z[2] * z[2]
          + y[1] * y[1] * x[2] * x[2] * z[2] * z[2]
          + z[1] * z[1] * x[2] * x[2] * y[2] * y[2]
        = x[2] * x[2] * y[2] * y[2] * z[2] * z[2]

\* the slots of a returned vector that hold a hand's values
FilledSlots(vector) ==
    IF server = "lsm_server" THEN {vector}
    ELSE {s \in {RightSlot(vector), LeftSlot(vector)} : s # Zeros60}

\* C27 as stated: for a result whose hands are not degenerate and every
\* positive factor k, the normaliser returns for the hands scaled by k the
\* values it returned for the hands as they were, and landmark 9 has norm 1
\* in every fingerprint returned.
C27_ScaleInvariant ==
    (Returned /\ Usable(normalizer.results) = HandsAt(normalizer.results)) =>
        /\ \A k \in Factors :
              ScalesExactly(normalizer.results, k) =>
                  Normalizer(ScaleAll(normalizer.results, k)).vector
                      = normalizer.returned.vector
        /\ \A s \in FilledSlots(normalizer.returned.vector) : UnitReference(s)

\* C27 amended: the same for every positive factor k that leaves landmark 9
\* of every scaled hand at 1e-6 or more from its wrist; landmark 9 has norm
\* 1 in every fingerprint returned.
C27_ScaleInvariantWhileUsable ==
    (Returned /\ Usable(normalizer.results) = HandsAt(normalizer.results)) =>
        /\ \A k \in Factors :
              ( /\ ScalesExactly(normalizer.results, k)
                /\ \A h \in HandsAt(normalizer.results) :
                      ~Coincides(ScaleAll(normalizer.results, k)[h].landmarks) ) =>
                  Normalizer(ScaleAll(normalizer.results, k)).vector
                      = normalizer.returned.vector
        /\ \A s \in FilledSlots(normalizer.returned.vector) : UnitReference(s)

\* C27 witness: the one-hand normaliser returned a fingerprint for a hand
\* that is still usable at half its size
C27_Witness ==
    /\ Returned
    /\ server = "lsm_server"
    /\ ~normalizer.returned.none
    /\ normalizer.returned.divided[1] >= 2 * ScaleEpsilon
    /\ ScalesExactly(normalizer.results, << 1, 2 >>)
    /\ UnitReference(normalizer.returned.vector)

\* ---------------------------------------------------------------------
\* The two slots of the 120-value vector
\* ---------------------------------------------------------------------

\* the usable hands of a result that the detector labelled so
UsableLabelled(results, label) == {i \in Usable(results) : results[i].label = label}

\* C28: the two-hand normaliser returns 120 values, the right slot then the
\* left slot; a slot holds the 60 values of the usable hand labelled with
\* the slot's name (of the last one when two hands have that label), those
\* of a Left hand with x negated, and holds zeros when no usable hand has
\* that label; the count is that of the usable hands.
C28_SlotsByLabel ==
    (Returned /\ server = "lsm_server2") =>
        LET res == normalizer.results
            ret == normalizer.returned
            expected(label) ==
                IF UsableLabelled(res, label) = {} THEN Zeros60
                ELSE get_normalized_hand_vector_60d(
                         << res[Max(UsableLabelled(res, label))] >>).vector
        IN  /\ ~ret.none
            /\ Len(ret.vector) = 120
            /\ ret.vector = expected("Right") \o expected("Left")
            /\ RightSlot(ret.vector) = expected("Right")
            /\ LeftSlot(ret.vector) = expected("Left")
            /\ ret.count = Cardinality(Usable(res))

\* C28 witness: a usable Left hand reported before a usable Right hand
\* filled the left slot and the right slot with different values
C28_Witness ==
    /\ Returned
    /\ server = "lsm_server2"
    /\ Len(normalizer.results) = 2
    /\ normalizer.results[1].label = "Left"
    /\ normalizer.results[2].label = "Right"
    /\ normalizer.returned.count = 2
    /\ RightSlot(normalizer.returned.vector) # Zeros60
    /\ LeftSlot(normalizer.returned.vector) # Zeros60
    /\ RightSlot(normalizer.returned.vector) # LeftSlot(normalizer.returned.vector)

\* ---------------------------------------------------------------------
\* The choice of a target
\* ---------------------------------------------------------------------

\* the labels of the stored references, and of those stored under a key
\* with a value
StoredLabels == {QdrantPoints[i].payload.sign_name : i \in PointIds}

LabelsWhere(key, value) ==
    {QdrantPoints[i].payload.sign_name :
        i \in {j \in PointIds : key \in DOMAIN QdrantPoints[j].payload
                                /\ QdrantPoints[j].payload[key] = value}}

\* C29: when assign_target_sign has returned, its value is None exactly
\* when the list of labels the scan gave is empty, and otherwise a member
\* of that list; the list holds each label once, and only labels of stored
\* references; for the tier ANY in any letter case a scan that answers
\* gives the labels of all stored references, for another tier only labels
\* of references that match the filter.
C29_TargetFromScan ==
    \A c \in Conns :
        pc[c] = "assign_resume" =>
            LET signs == local[c].signs
                new_target == local[c].new_target
            IN  /\ new_target = PyNone <=> signs = << >>
                /\ new_target # PyNone => \E k \in 1..Len(signs) : signs[k] = new_target
                /\ \A j, k \in 1..Len(signs) : signs[j] = signs[k] => j = k
                /\ \A k \in 1..Len(signs) : signs[k] \in StoredLabels
                /\ Upper(local[c].difficulty) = "ANY" =>
                      (signs = << >> \/ {signs[k] : k \in 1..Len(signs)} = StoredLabels)
                /\ Upper(local[c].difficulty) # "ANY" =>
                      {signs[k] : k \in 1..Len(signs)}
                          \subseteq LabelsWhere(ScrollFilterKey, Upper(local[c].difficulty))

\* C29 witness: for the tier "any" the scan gave two labels for three
\* references, two of which share a label, and the second label was chosen
C29_Witness ==
    \E c \in Conns :
        /\ pc[c] = "assign_resume"
        /\ local[c].difficulty = "any"
        /\ Len(local[c].signs) = 2
        /\ Len(QdrantPoints) = 3
        /\ local[c].new_target = local[c].signs[2]

\* ---------------------------------------------------------------------
\* One reply for each message
\* ---------------------------------------------------------------------

\* C30: a handler that reads a JSON object on an open connection either
\* sends one message in that step and waits for the next message, or hands
\* work to the executor and sends one message when it resumes, unless the
\* connection was closed meanwhile; the step that reads the object changes
\* the target or the dominance of the session, never both.
C30_OneReplyPerObject ==
    [][\A c \in Conns :
        /\ (Reads(c) /\ data'[c].kind = "object") =>
              /\ \/ nsent'[c] = nsent[c] + 1 /\ pc'[c] = "recv"
                 \/ Silent(c) /\ pc'[c] \in {"assign_exec", "image_exec"}
              /\ Registered(c)'
              /\ ~( /\ CONNECTED_PLAYERS'[c].target_sign # CONNECTED_PLAYERS[c].target_sign
                    /\ CONNECTED_PLAYERS'[c].dominance # CONNECTED_PLAYERS[c].dominance )
        /\ (pc[c] \in {"assign_resume", "image_resume"} /\ pc'[c] # pc[c] /\ open[c]) =>
              nsent'[c] = nsent[c] + 1 /\ pc'[c] = "recv"
      ]_vars

\* ---------------------------------------------------------------------
\* The registry and the identity of a session
\* ---------------------------------------------------------------------

\* the handler of c is between its registration and its cleanup
Running(c) ==
    pc[c] \in {"greet", "recv", "assign_exec", "assign_resume", "image_exec",
               "image_detect", "image_resume"}

\* C31: after every step the registry holds an entry for each connection
\* whose handler is between its registration and its cleanup, so the entry
\* a handler reads or writes on a message or on resuming exists; an entry
\* leaves the registry only in a step of its own handler, the cleanup.
C31_OwnEntryExists ==
    [][\A c \in Conns :
        /\ Running(c)' => Registered(c)'
        /\ (Registered(c) /\ ~Registered(c)') =>
              /\ Running(c) /\ pc'[c] = "done"
              /\ \A d \in Conns \ {c} : pc'[d] = pc[d] /\ nrecv'[d] = nrecv[d]
      ]_vars

\* C31 witness: both handlers are running, one waiting for its image
\* worker, and one of them has already replaced the target of its entry
C31_Witness ==
    /\ \A c \in Conns : Running(c) /\ Registered(c)
    /\ \E c \in Conns : pc[c] = "image_detect"
    /\ \E c \in Conns : CONNECTED_PLAYERS[c].target_sign = "A"

\* C32: the id of every registered session is the one assigned when its
\* connection was accepted, and no two registered sessions have the same id.
C32_IdStableUnique ==
    \A c \in Conns :
        Registered(c) =>
            /\ CONNECTED_PLAYERS[c].id = HexId(c)
            /\ \A d \in Conns \ {c} :
                  Registered(d) => CONNECTED_PLAYERS[d].id # CONNECTED_PLAYERS[c].id

\* ---------------------------------------------------------------------
\* The form of a target
\* ---------------------------------------------------------------------

\* C33: the target of every registered session, and the target echoed in
\* the last TARGET_SET, TARGET_ASSIGNED or verdict reply of a connection,
\* is in uppercase form (the sentinel NONE is).
C33_TargetUppercase ==
    \A c \in Conns :
        /\ Registered(c) => Upper(CONNECTED_PLAYERS[c].target_sign)
                                = CONNECTED_PLAYERS[c].target_sign
        /\ (lastSent[c].kind = "verdict"
              \/ lastSent[c].status \in {"TARGET_SET", "TARGET_ASSIGNED"}) =>
                Upper(lastSent[c].target) = lastSent[c].target

\* ---------------------------------------------------------------------
\* Calls of the shared detector
\* ---------------------------------------------------------------------

\* C34: at most one worker thread is inside hands.process at any time, and
\* no call of the detector has overlapped with another.
C34_DetectorCalledByOne ==
    /\ Cardinality(hands.busy) <= 1
    /\ hands.raced = {}

\* ---------------------------------------------------------------------
\* The dominance of a player
\* ---------------------------------------------------------------------

\* C35: in the two-hand script the worker of an image is given the
\* dominance stored in the session, and for a call that was alone in the
\* detector the slots assembled from the frame and the verdict returned are
\* those the same frame, target and answer of the store give for the
\* dominance LEFT and for the dominance RIGHT.
C35_DominanceIgnored ==
    [][\A c \in Conns :
        ( /\ server = "lsm_server2"
          /\ pc[c] = "image_detect" /\ pc'[c] = "image_resume"
          /\ c \notin hands.raced ) =>
            /\ local[c].player_dominance = CONNECTED_PLAYERS[c].dominance
            /\ local[c].player_dominance \in {"LEFT", "RIGHT"}
            /\ \A d \in {"LEFT", "RIGHT"} :
                  get_normalized_hand_vector2(HandsProcess(local[c].img_bytes), d)
                    = get_normalized_hand_vector2(HandsProcess(local[c].img_bytes),
                                                  local[c].player_dominance)
            /\ \E o \in SearchOutcomes :
                  \A d \in {"LEFT", "RIGHT"} :
                      local'[c].result =
                          _perform_sign_validation(local[c].img_bytes,
                                                   local[c].target_sign, d, o)
      ]_vars

\* C35 witness: a session of the two-hand script that had set its
\* dominance to LEFT was sent a verdict with a similarity
C35_Witness ==
    \E c \in Conns :
        /\ server = "lsm_server2"
        /\ Registered(c)
        /\ CONNECTED_PLAYERS[c].dominance = "LEFT"
        /\ lastSent[c].kind = "verdict"
        /\ lastSent[c].score > 0

\* ---------------------------------------------------------------------
\* The labels a target can be chosen from
\* ---------------------------------------------------------------------

\* the worker of c returns the label as the new target
AssignsLabel(c, label) == AssignWorker(c) /\ local'[c].new_target = label

\* the payload key under which the references carry their tier
TierKey == "difficulty"

\* C36: when the worker of an ASSIGN_TARGET is about to run, every label
\* with a stored reference of the requested tier (any stored label, for the
\* tier ANY) is a value the worker can return.
C36_EveryLabelPossible ==
    \A c \in Conns :
        pc[c] = "assign_exec" =>
            \A label \in (IF Upper(local[c].difficulty) = "ANY" THEN StoredLabels
                          ELSE LabelsWhere(TierKey, Upper(local[c].difficulty))) :
                ENABLED AssignsLabel(c, label)

\* ---------------------------------------------------------------------
\* The score of a verdict
\* ---------------------------------------------------------------------

\* the pose the detector reports for a frame with one usable hand
PoseOf(frame) ==
    CASE frame = "handA" -> "pA"
      [] frame = "handT" -> "pT"
      [] frame = "handU" -> "pU"

\* the similarities of a pose to the stored references of a label, of
\* every tier
SimilaritiesTo(pose, label) ==
    {Cosine(pose, QdrantPoints[i].vector) :
        i \in {j \in PointIds : QdrantPoints[j].payload.sign_name = label}}

\* C37: for a frame with a usable hand whose call was alone in the
\* detector and a store that answers, the score the worker returns is the
\* highest similarity of the hand's pose to the stored references whose
\* label is the uppercased target, whatever their tier, and 0 when no
\* reference has that label; the verdict sent carries that score.
C37_ScoreIsBestOfLabel ==
    [][\A c \in Conns :
        /\ ( /\ pc[c] = "image_detect" /\ pc'[c] = "image_resume"
             /\ c \notin hands.raced
             /\ local[c].img_bytes \in {"handA", "handT", "handU"}
             /\ local'[c].result.feedback.text
                   \in {"Sena Correcta! Similitud", BelowThresholdFeedback} ) =>
              LET sims == SimilaritiesTo(PoseOf(local[c].img_bytes),
                                         Upper(local[c].target_sign))
              IN  local'[c].result.score_percent
                      = IF sims = {} THEN 0
                        ELSE CHOOSE s \in sims : \A t \in sims : t <= s
        /\ (pc[c] = "image_resume" /\ pc'[c] = "recv") =>
              lastSent'[c].score = local[c].result.score_percent
      ]_vars

\* C37 witness: a verdict for the target A carries the similarity to the
\* HARD reference of A, which is higher than that to its EASY reference
C37_Witness ==
    \E c \in Conns :
        /\ lastSent[c].kind = "verdict"
        /\ lastSent[c].target = "A"
        /\ lastSent[c].score = Cosine("pT", "vA2")
        /\ Cosine("pT", "vA2") > Cosine("pT", "vA")
        /\ QdrantPoints[2].payload.difficulty = "HARD"
        /\ QdrantPoints[2].vector = "vA2"

\* ---------------------------------------------------------------------
\* The hands counted and the slots filled
\* ---------------------------------------------------------------------

\* C38: the number of hands the two-hand normaliser counts as detected is
\* the number of slots of its vector that hold the values of a hand.
C38_CountIsFilledSlots ==
    (Returned /\ server = "lsm_server2") =>
        normalizer.returned.count
            = Cardinality({s \in {"Right", "Left"} :
                             (IF s = "Right" THEN RightSlot(normalizer.returned.vector)
                              ELSE LeftSlot(normalizer.returned.vector)) # Zeros60})

\* ---------------------------------------------------------------------
\* Progress of the work handed to the executor
\* ---------------------------------------------------------------------

\* the executor's threads run the functions handed to them and return, and
\* the event loop resumes a handler whose worker has returned
Fairness ==
    \A c \in Conns :
        /\ WF_vars(AssignWorker(c))
        /\ WF_vars(ImageWorker(c))
        /\ WF_vars(ImageDetect(c))
        /\ WF_vars(AssignResume(c))
        /\ WF_vars(ImageResume(c))

\* the messages of two clients that set or ask for a target and send frames
MaxFairMsgs == 3

FairMessages ==
    {[Obj EXCEPT !.command = JStr("SET_TARGET"), !.sign = JStr("a")],
     [Obj EXCEPT !.type = JStr("assign_target"), !.difficulty = JStr("any")],
     [Obj EXCEPT !.type = JStr("assign_target"), !.difficulty = JStr("easy")],
     [Obj EXCEPT !.type = JStr("image"), !.image_data = JStr("b64:handA")],
     [Obj EXCEPT !.type = JStr("image"), !.image_data = JStr("b64:txt")],
     [Obj EXCEPT !.type = JStr("image"), !.command = JNull, !.image_data = JStr("b64:handA")]}

NextFair ==
    \E c \in Conns :
        \/ Connect(c)
        \/ Greet(c)
        \/ TotalRead < MaxFairMsgs /\ \E msg \in FairMessages : Receive(c, msg)
        \/ AssignWorker(c)
        \/ AssignResume(c)
        \/ ImageWorker(c)
        \/ ImageDetect(c)
        \/ ImageResume(c)
        \/ Close(c)
        \/ EndOfStream(c)

SpecFair == Init /\ [][NextFair]_vars /\ Fairness

\* the message read in this step is an image frame and selects no branch
\* by a command string
ReadsImage(c) ==
    /\ Reads(c)
    /\ data'[c].kind = "object"
    /\ data'[c].type = JStr("image")
    /\ data'[c].command.t # "str"

\* once work is handed to the executor the reply follows: a handler that
\* has handed an image to the executor is later waiting for the next
\* message with a verdict as the last message sent, or its connection is
\* closed; likewise with TARGET_ASSIGNED or ERROR for an ASSIGN_TARGET
HandedWorkReplied ==
    \A c \in Conns :
        /\ (pc[c] = "image_exec")
              ~> (~open[c] \/ (pc[c] = "recv" /\ lastSent[c].kind = "verdict"))
        /\ (pc[c] = "assign_exec")
              ~> (~open[c] \/ (pc[c] = "recv"
                               /\ lastSent[c].status \in {"TARGET_ASSIGNED", "ERROR"}))

WorkInFlightOnBoth ==
    \E c, d \in Conns :
        /\ pc[c] \in {"image_exec", "image_detect"}
        /\ pc[d] = "assign_exec"
        /\ open[c] /\ open[d]

====
